---- MODULE Spec2Model ----
(***************************************************************************)
(* Model of the voice session engine of voice-agents-workflow:             *)
(*   src/healthcare_agents/workflow/voice_workflow.py                      *)
(*       HealthcareVoiceWorkflow.correct_transcription / run               *)
(*   src/main.py                                                           *)
(*       websocket_endpoint (inbound loop), run_pipeline (outbound task),  *)
(*       StreamedAudioInputWithEndDetection, ConnectionManager             *)
(*                                                                         *)
(* Texts are sequences of one-character strings, so that str.strip() and   *)
(* "".join() are computed rather than assumed.  Confidence scores are in   *)
(* tenths (0.5 is 5, 0.4 is 4, 1.0 is 10).                                 *)
(***************************************************************************)
EXTENDS Integers, Sequences, FiniteSets, TLC

----------------------------------------------------------------------------
(* Python values and helpers                                               *)

\* str.strip(): leading and trailing whitespace removed.
RECURSIVE lstrip(_)
lstrip(s) == IF s # <<>> /\ Head(s) = " " THEN lstrip(Tail(s)) ELSE s

RECURSIVE rstrip(_)
rstrip(s) == IF s # <<>> /\ s[Len(s)] = " " THEN rstrip(SubSeq(s, 1, Len(s) - 1)) ELSE s

strip(s) == rstrip(lstrip(s))

\* A JSON number as json.loads delivers it: a finite number (in tenths), the
\* NaN literal json.loads accepts, or a value of a non-numeric type.
Num(n) == [kind |-> "num", v |-> n]
NaN == [kind |-> "nan", v |-> 0]
NotANumber == [kind |-> "str", v |-> 0]

\* Python's a > b and a < b on floats: false whenever an operand is NaN.
PyGt(a, b) == a.kind = "num" /\ b.kind = "num" /\ a.v > b.v
PyLt(a, b) == a.kind = "num" /\ b.kind = "num" /\ a.v < b.v

\* Python's max(a, b) / min(a, b): the first argument unless the second one
\* compares strictly greater / smaller.
PyMax(a, b) == IF PyGt(b, a) THEN b ELSE a
PyMin(a, b) == IF PyLt(b, a) THEN b ELSE a

----------------------------------------------------------------------------
(* correct_transcription                                                   *)

FallbackConfidence == 4
ConfidenceGate == 5
ConfidenceFloor == 0
ConfidenceCeil == 10

RequiredFields == {"corrected_text", "confidence_score", "language_detected",
                   "needs_human_review"}

\* The validation of lines 104-113 with one key left out of the list.
ValidateRequiredFieldsLax(resp) ==
    /\ resp.kind = "obj"
    /\ (RequiredFields \ {"corrected_text"}) \subseteq resp.keys

\* all(key in correction_data for key in [...]) on the parsed response.
ValidateRequiredFields(resp) ==
    /\ resp.kind = "obj"
    /\ RequiredFields \subseteq resp.keys

\* correction_data.get(key, default)
GetField(resp, key, val, default) == IF key \in resp.keys THEN val ELSE default

\* min(max(confidence, 0.0), 1.0)
ClampConfidence(c) == PyMin(PyMax(c, Num(ConfidenceFloor)), Num(ConfidenceCeil))

\* The except branch returning an empty corrected_text instead of the input.
CorrectionFallbackBlank(transcription) ==
    [keys |-> {"corrected_text", "confidence_score", "language_detected",
               "needs_human_review", "error"},
     corrected_text |-> <<>>,
     confidence_score |-> Num(FallbackConfidence),
     language_detected |-> "unk",
     needs_human_review |-> TRUE,
     original_text |-> <<>>]

\* The except branch of correct_transcription (lines 128-136).
CorrectionFallback(transcription) ==
    [keys |-> {"corrected_text", "confidence_score", "language_detected",
               "needs_human_review", "error"},
     corrected_text |-> transcription,
     confidence_score |-> Num(FallbackConfidence),
     language_detected |-> "unk",
     needs_human_review |-> TRUE,
     original_text |-> <<>>]

\* Does the try block (lines 50-126) raise on this service outcome?
CorrectionRaises(resp) ==
    \/ resp.kind = "raise"                     \* the completion call fails
    \/ resp.kind = "badjson"                   \* json.loads fails
    \/ ~ValidateRequiredFields(resp)           \* not an object, or a field absent
    \/ ("corrected_text" \in resp.keys /\ ~resp.textIsStr)
                                               \* .strip() on a non-string
    \/ ("confidence_score" \in resp.keys /\ resp.conf.kind = "str")
                                               \* max() on a non-number

\* The dict returned by the try block (lines 116-126).
CorrectionSuccess(transcription, resp) ==
    [keys |-> {"corrected_text", "confidence_score", "language_detected",
               "needs_human_review", "original_text"},
     corrected_text |->
         strip(GetField(resp, "corrected_text", resp.text, transcription)),
     confidence_score |->
         ClampConfidence(GetField(resp, "confidence_score", resp.conf, Num(5))),
     language_detected |-> GetField(resp, "language_detected", resp.lang, "unk"),
     needs_human_review |-> GetField(resp, "needs_human_review", resp.review, FALSE),
     original_text |-> transcription]

correct_transcription(transcription, resp) ==
    IF CorrectionRaises(resp)
    THEN CorrectionFallback(transcription)
    ELSE CorrectionSuccess(transcription, resp)

----------------------------------------------------------------------------
(* Bounds of the model and the input sets drawn from them                  *)

MaxUtterances == 2      \* end_of_speech messages the client sends
MaxChunks == 2          \* fragments the dialogue engine streams in one turn
SessionMaxChunks == 1   \* the same, in the specification of the whole session
MaxFrames == 1          \* binary frames that reach add_audio
BufferMaxFrames == 3    \* the same, where the audio buffer is studied
MaxWait == 2            \* longest timeout of wait_for_end_of_speech
MaxOps == 3             \* operations of one connection, where two are studied
MaxStreamEvents == 4    \* events of result.stream() before it ends or raises

\* Raw transcripts the speech-to-text engine hands to run().
Transcripts == {<<"h", "i">>, <<" ", "a", " ">>}

\* Texts the correction service puts in corrected_text.
ServiceTexts == {<<"o", "k">>, <<" ", "o", "k", " ">>, <<>>}

\* Values the correction service puts in confidence_score.
ServiceConfidences ==
    {Num(n) : n \in {-2, 0, 3, 4, 5, 6, 10, 12}} \cup {NaN, NotANumber}

ObjResponse(keys, textIsStr, text, conf, lang, review) ==
    [kind |-> "obj", keys |-> keys, textIsStr |-> textIsStr, text |-> text,
     conf |-> conf, lang |-> lang, review |-> review]

NonObjResponse(kind) ==
    [kind |-> kind, keys |-> {}, textIsStr |-> TRUE, text |-> <<>>,
     conf |-> Num(0), lang |-> "unk", review |-> FALSE]

\* Every outcome of the completion call the pure-function specification tries.
AllResponses ==
    {NonObjResponse(k) : k \in {"raise", "badjson", "nondict"}}
    \cup {ObjResponse(RequiredFields, TRUE, t, c, "es", r) :
             t \in ServiceTexts, c \in ServiceConfidences, r \in BOOLEAN}
    \cup {ObjResponse(RequiredFields, FALSE, <<>>, Num(9), "es", FALSE)}
    \cup {ObjResponse(ks, TRUE, <<"o", "k">>, Num(9), "es", r) :
             ks \in (SUBSET RequiredFields) \ {RequiredFields}, r \in BOOLEAN}

\* The outcomes the workflow specification tries.
TurnResponses ==
    {NonObjResponse("raise"),
     NonObjResponse("badjson"),
     ObjResponse(RequiredFields, TRUE, <<" ", "o", "k", " ">>, Num(9), "es", FALSE),
     ObjResponse(RequiredFields, TRUE, <<"o", "k">>, Num(5), "es", FALSE),
     ObjResponse(RequiredFields, TRUE, <<"o", "k">>, Num(3), "es", FALSE),
     ObjResponse(RequiredFields, TRUE, <<"o", "k">>, NaN, "es", FALSE),
     ObjResponse(RequiredFields, TRUE, <<>>, Num(12), "es", FALSE),
     ObjResponse(RequiredFields \ {"needs_human_review"}, TRUE, <<"o", "k">>,
                 Num(9), "es", FALSE),
     ObjResponse(RequiredFields, TRUE, <<"\"", "o", "k", "\"">>, Num(9), "es", FALSE)}

\* The outcomes the session specification tries.
SessionResponses ==
    {NonObjResponse("raise"),
     ObjResponse(RequiredFields, TRUE, <<" ", "o", "k", " ">>, Num(9), "es", FALSE)}

\* Fragments the dialogue engine streams.
Fragments == {<<"y", "o">>, <<"u">>}

\* The fragment the session specification streams: 4800 samples of speech.
SessionFragments == {<<"y", "o">>}

\* Agents the dialogue engine can report as last_agent.
Agents == {"main_agent", "cardiology_agent"}

----------------------------------------------------------------------------
(* State                                                                   *)

VARIABLES
    \* the connection (main.py)
    transport,          \* "open", or "closed" once the client has gone
    wire,               \* messages websocket_endpoint and run_pipeline wrote
                        \* to the client, in order
    notified,           \* messages the workflow's callbacks wrote, in order
    ib_pc,              \* inbound loop of websocket_endpoint: "loop" or "done"
    eos_count,          \* end_of_speech messages the inbound loop has handled
    frames_sent,        \* binary frames that reached add_audio
    ib_data,            \* the message the inbound loop read last (line 170)
    \* StreamedAudioInputWithEndDetection (main.py)
    pending_len,        \* len(self.audio_buffer)
    pending_abs_sum,    \* sum of np.abs(sample) over self.audio_buffer
    pending_mins,       \* samples of self.audio_buffer that are -32768
    silence_frames,     \* self.silence_frames
    stt_chunks,         \* chunk lengths forwarded to the base class, in order
    end_of_speech_detected,
    flush_tasks,        \* chunk lengths held by the tasks signal_end_of_speech
                        \* created and that have not run yet
    admitted,           \* samples that reached add_audio so far (history)
    stt_starts,         \* for each chunk of stt_chunks, how many samples had
                        \* been admitted before its first one (history)
    task_starts,        \* the same for the chunks of flush_tasks (history)
    wait_pc,            \* a caller of wait_for_end_of_speech: "idle",
                        \* "waiting", "true" or "false" (what it returned)
    wait_left,          \* time left of its timeout (-1: no timeout)
    active_connections, \* manager.active_connections, shared by all connections
    audio_inputs,       \* every StreamedAudioInputWithEndDetection constructed
    workflows,          \* every HealthcareVoiceWorkflow constructed
    conn,               \* per connection: its state and the objects it holds
    last_op,            \* the connection that acted last, and what it did
    \* the voice pipeline and its event stream
    pipe_pc,            \* "alive", or "dead" once it has failed or ended
    turns_started,      \* turns the pipeline has handed to the workflow
    events,             \* events of result.stream() not yet consumed
    \* run_pipeline (main.py)
    ob_pc,              \* position of the outbound task
    ob_event,           \* the lifecycle event being relayed
    audio_received,     \* lengths of the audio data taken from the stream
    audio_buffer,       \* chunk lengths accumulated in audio_buffer
    buffer_is_none,     \* audio_buffer is None
    buffer_size,
    ob_attempts,        \* writes run_pipeline has attempted
    \* HealthcareVoiceWorkflow (voice_workflow.py)
    wf_pc,              \* position inside run()
    transcription,      \* the argument of run()
    service_resp,       \* what the correction service answered in this turn
    correction,         \* the dict correct_transcription returned
    processed_text,
    full_response,      \* fragments collected in this turn
    yielded,            \* fragments run() has yielded in this turn
    input_history,      \* self._input_history
    current_agent,      \* self._current_agent
    prior_history,      \* self._input_history when the turn began
    turn_failures,      \* what raised inside run() in this turn
    engine_input,       \* the history Runner.run_streamed was invoked with
    result_last_agent,  \* result.last_agent once the stream is exhausted
    new_history,        \* what result.to_input_list() gave back (line 181)
    \* correct_transcription applied to one drawn input
    cx_transcription, cx_resp, cx_result, cx_pc

connVars == <<transport, wire, notified, ib_pc, eos_count, frames_sent, ib_data>>
bufVars == <<pending_len, pending_abs_sum, pending_mins, silence_frames,
             stt_chunks, end_of_speech_detected, flush_tasks,
             admitted, stt_starts, task_starts>>
waitVars == <<wait_pc, wait_left>>
sessVars == <<active_connections, audio_inputs, workflows, conn, last_op>>
pipeVars == <<pipe_pc, turns_started, events>>
obVars == <<ob_pc, ob_event, audio_received, audio_buffer, buffer_is_none,
            buffer_size, ob_attempts>>
wfVars == <<wf_pc, transcription, service_resp, correction, processed_text,
            full_response, yielded, input_history, current_agent, prior_history,
            turn_failures, engine_input, result_last_agent, new_history>>
cxVars == <<cx_transcription, cx_resp, cx_result, cx_pc>>
vars == <<connVars, bufVars, waitVars, pipeVars, obVars, wfVars, cxVars, sessVars>>

----------------------------------------------------------------------------
(* The transport: ConnectionManager.send_text / send_audio                 *)

TransportOpen == transport = "open"

Msg(by, kind, body) == [by |-> by, kind |-> kind, body |-> body]

\* The text frame of a callback message, from the opening brace on; the
\* constant part up to the opening quote of the text value is left out.
\* handle_transcription (lines 274-276) pastes the text into an f-string.
TranscriptionPayload(text) == <<"{", "\"">> \o text \o <<"\"", "}">>

\* json.dumps escapes the quote and the backslash of a string (line 282).
RECURSIVE JsonEscape(_)
JsonEscape(text) ==
    IF text = <<>> THEN <<>>
    ELSE (IF Head(text) \in {"\"", "\\"} THEN <<"\\", Head(text)>> ELSE <<Head(text)>>)
         \o JsonEscape(Tail(text))

\* handle_agent_response (lines 281-282) builds the frame with json.dumps.
AgentResponsePayload(text) == <<"{", "\"">> \o JsonEscape(text) \o <<"\"", "}">>

\* A JSON parser reading a string value after its opening quote: the text up
\* to the first quote that is not escaped, and what follows it.
NotJson == [ok |-> FALSE, text |-> <<>>, rest |-> <<>>]
RECURSIVE JsonScanString(_, _)
JsonScanString(cs, acc) ==
    IF cs = <<>> THEN NotJson
    ELSE IF Head(cs) = "\"" THEN [ok |-> TRUE, text |-> acc, rest |-> Tail(cs)]
    ELSE IF Head(cs) = "\\"
         THEN IF Len(cs) >= 2 /\ cs[2] \in {"\"", "\\"}
              THEN JsonScanString(Tail(Tail(cs)), Append(acc, cs[2]))
              ELSE NotJson
    ELSE JsonScanString(Tail(cs), Append(acc, Head(cs)))

\* The text field a client gets from a frame with JSON.parse, if any.
JsonTextField(payload) ==
    IF Len(payload) < 2 \/ SubSeq(payload, 1, 2) # <<"{", "\"">>
    THEN NotJson
    ELSE LET r == JsonScanString(SubSeq(payload, 3, Len(payload)), <<>>)
         IN  IF r.ok /\ r.rest = <<"}">> THEN r ELSE NotJson

\* The frame written for a callback message of the workflow.
Payload(m) ==
    IF m.kind = "transcription"
    THEN TranscriptionPayload(m.body)
    ELSE AgentResponsePayload(m.body)

\* websocket.send_*: the message reaches the client when the transport is
\* open; on a closed transport the call raises and nothing is written.
Delivered(w, m) == IF TransportOpen THEN Append(w, m) ELSE w

\* An event of result.stream().
AudioEvent(n) == [type |-> "voice_stream_event_audio", len |-> n, event |-> ""]
LifecycleEvent(name) == [type |-> "voice_stream_event_lifecycle", len |-> 0, event |-> name]
StreamRaises == [type |-> "raise", len |-> 0, event |-> ""]
StreamEnds == [type |-> "end", len |-> 0, event |-> ""]

\* Samples the text-to-speech stage produces for one fragment.
TtsSamples(fragment) == 2400 * Len(fragment)

\* The pipeline queues events only while it is alive.
Queued(evs) == IF pipe_pc = "alive" THEN events \o evs ELSE events

----------------------------------------------------------------------------
(* HealthcareVoiceWorkflow.run                                             *)

Entry(role, content) ==
    [isDict |-> TRUE, keys |-> {"role", "content"}, role |-> role, content |-> content]

\* error_msg of the inner handler and error_response of the outer handler.
ApologyTechnical == <<"sorry-technical-issue">>
ApologyGeneric == <<"sorry-trouble-processing">>
Apologies == {ApologyTechnical, ApologyGeneric}

\* "".join(full_response)
RECURSIVE Join(_)
Join(chunks) == IF chunks = <<>> THEN <<>> ELSE Head(chunks) \o Join(Tail(chunks))

\* The confidence gate of lines 151-155 with >= in place of >.
GateTextInclusive(corr, raw) ==
    IF corr.confidence_score.kind = "num" /\ corr.confidence_score.v >= ConfidenceGate
    THEN corr.corrected_text
    ELSE raw

\* processed_text (lines 151-155)
GateText(corr, raw) ==
    IF PyGt(corr.confidence_score, Num(ConfidenceGate))
    THEN corr.corrected_text
    ELSE raw

\* The test of line 142 skipping empty transcripts only.
TurnTooShortBlankOnly(t) == Len(strip(t)) < 1

\* Line 142: len(transcription.strip()) < 2
TurnTooShort(t) == Len(strip(t)) < 2

\* isinstance(item, dict) and "role" in item and "content" in item
ValidItem(item) == item.isDict /\ "role" \in item.keys /\ "content" \in item.keys

\* What result.to_input_list() can give back after a turn.
ListOf(items) == [kind |-> "list", items |-> items]
SessionReturnedHistories(h, reply) ==
    {ListOf(h \o <<Entry("assistant", reply)>>), [kind |-> "raises", items |-> <<>>]}

ReturnedHistories(h, reply) ==
    {ListOf(h \o <<Entry("assistant", reply)>>),
     ListOf(<<Entry("assistant", reply)>>),
     ListOf(<<>>),
     ListOf(h \o <<[isDict |-> TRUE, keys |-> {"role"}, role |-> "assistant",
                    content |-> <<>>]>>),
     ListOf(<<[isDict |-> TRUE, keys |-> {"content"}, role |-> "", content |-> reply],
              [isDict |-> FALSE, keys |-> {}, role |-> "", content |-> <<>>]>>),
     ListOf(h \o <<Entry("assistant", <<>>)>>),
     [kind |-> "notlist", items |-> <<>>],
     [kind |-> "raises", items |-> <<>>]}

\* Reconciliation that extends the previous history with the validated list
\* instead of replacing it.
ReconcileExtending(h, ret, complete_response) ==
    IF ret.kind = "list" /\ ret.items # <<>> /\ SelectSeq(ret.items, ValidItem) # <<>>
    THEN h \o SelectSeq(ret.items, ValidItem)
    ELSE Append(h, Entry("assistant", complete_response))

\* Lines 180-208: adopt the validated list, or append the reply.
Reconcile(h, ret, complete_response) ==
    IF ret.kind = "raises"
    THEN Append(h, Entry("assistant", complete_response))
    ELSE IF ret.kind = "list" /\ ret.items # <<>>
         THEN LET valid_history == SelectSeq(ret.items, ValidItem)
              IN  IF valid_history # <<>> THEN valid_history ELSE h
         ELSE Append(h, Entry("assistant", complete_response))

\* The append of lines 160-165 left out: the engine is invoked first.
AppendUserEntryLate(h, text) == h

\* Line 210 skipped: the agent of the previous turn is kept.
AgentAfterTurnKept(current, reported) == current

\* Lines 160-165: the user entry is appended.
AppendUserEntry(h, text) == Append(h, Entry("user", text))

\* Line 210: self._current_agent = result.last_agent
AgentAfterTurn(current, reported) == reported

\* Nothing passed to the engine, nothing reported or returned by it yet.
NoHistory == [kind |-> "none", items |-> <<>>]
NoAgent == "none"

NoResponse == NonObjResponse("none")
NoCorrection ==
    [keys |-> {}, corrected_text |-> <<>>, confidence_score |-> Num(0),
     language_detected |-> "", needs_human_review |-> FALSE, original_text |-> <<>>]

\* The pipeline hands a transcript to run(): lines 138-144.
RunBegin(t) ==
    /\ pipe_pc = "alive"
    /\ wf_pc = "idle"
    /\ turns_started < eos_count
    /\ turns_started' = turns_started + 1
    /\ events' = Queued(<<LifecycleEvent("turn_started")>>)
    /\ transcription' = t
    /\ prior_history' = input_history
    /\ yielded' = <<>>
    /\ full_response' = <<>>
    /\ turn_failures' = {}
    /\ service_resp' = NoResponse
    /\ correction' = NoCorrection
    /\ processed_text' = <<>>
    /\ engine_input' = NoHistory
    /\ result_last_agent' = NoAgent
    /\ new_history' = NoHistory
    /\ wf_pc' = IF TurnTooShort(t) THEN "returned" ELSE "correcting"
    /\ UNCHANGED <<input_history, current_agent, pipe_pc>>
    /\ UNCHANGED <<connVars, bufVars, obVars, cxVars, sessVars, waitVars>>

\* Lines 147-155: the correction call and the confidence gate.
RunCorrect(resp) ==
    /\ pipe_pc = "alive"
    /\ wf_pc = "correcting"
    /\ service_resp' = resp
    /\ correction' = correct_transcription(transcription, resp)
    /\ processed_text' = GateText(correction', transcription)
    /\ wf_pc' = "on_start"
    /\ UNCHANGED <<engine_input, result_last_agent, new_history>>
    /\ UNCHANGED <<transcription, full_response, yielded, input_history,
                   current_agent, prior_history, turn_failures>>
    /\ UNCHANGED <<connVars, bufVars, pipeVars, obVars, cxVars, sessVars, waitVars>>

\* Lines 157-165: on_start (handle_transcription, main.py 272-276), then the
\* user entry is appended.  A failing notification goes to the outer handler.
RunOnStart ==
    /\ pipe_pc = "alive"
    /\ wf_pc = "on_start"
    /\ notified' = Delivered(notified, Msg("workflow", "transcription", processed_text))
    /\ IF TransportOpen
       THEN /\ input_history' = AppendUserEntry(input_history, processed_text)
            /\ engine_input' = ListOf(input_history')     \* line 169
            /\ wf_pc' = "streaming"
            /\ UNCHANGED turn_failures
       ELSE /\ wf_pc' = "outer_yield"
            /\ turn_failures' = turn_failures \cup {"on_start"}
            /\ UNCHANGED <<input_history, engine_input>>
    /\ UNCHANGED <<result_last_agent, new_history>>
    /\ UNCHANGED <<transcription, service_resp, correction, processed_text,
                   full_response, yielded, current_agent, prior_history>>
    /\ UNCHANGED <<transport, wire, ib_pc, eos_count, frames_sent, ib_data>>
    /\ UNCHANGED <<bufVars, pipeVars, obVars, cxVars, sessVars, waitVars>>

\* Line 172 keeping the latest fragment only.
CollectedLatest(collected, chunk) == <<chunk>>

\* Line 172: full_response.append(chunk)
Collected(collected, chunk) == Append(collected, chunk)

\* Lines 171-173: one fragment arrives, is collected and yielded; the
\* pipeline turns it into an audio event.
RunStreamChunk(chunk, limit) ==
    /\ pipe_pc = "alive"
    /\ wf_pc = "streaming"
    /\ Len(full_response) < limit
    /\ full_response' = Collected(full_response, chunk)
    /\ yielded' = Append(yielded, chunk)
    /\ UNCHANGED <<engine_input, result_last_agent, new_history>>
    /\ events' = Queued(<<AudioEvent(TtsSamples(chunk))>>)
    /\ UNCHANGED <<wf_pc, transcription, service_resp, correction, processed_text,
                   input_history, current_agent, prior_history, turn_failures>>
    /\ UNCHANGED <<pipe_pc, turns_started>>
    /\ UNCHANGED <<connVars, bufVars, obVars, cxVars, sessVars, waitVars>>

\* Lines 169-173 raise: Runner.run_streamed or the stream fails.
RunStreamRaises ==
    /\ pipe_pc = "alive"
    /\ wf_pc = "streaming"
    /\ wf_pc' = "inner_yield"
    /\ turn_failures' = turn_failures \cup {"engine"}
    /\ UNCHANGED <<engine_input, result_last_agent, new_history>>
    /\ UNCHANGED <<transcription, service_resp, correction, processed_text,
                   full_response, yielded, input_history, current_agent,
                   prior_history>>
    /\ UNCHANGED <<connVars, bufVars, pipeVars, obVars, cxVars, sessVars, waitVars>>

\* Line 175: the stream is exhausted; the result now names the last agent.
RunStreamEnds(last_agent) ==
    /\ pipe_pc = "alive"
    /\ wf_pc = "streaming"
    /\ wf_pc' = "on_response"
    /\ result_last_agent' = last_agent
    /\ UNCHANGED <<engine_input, new_history>>
    /\ UNCHANGED <<transcription, service_resp, correction, processed_text,
                   full_response, yielded, input_history, current_agent,
                   prior_history, turn_failures>>
    /\ UNCHANGED <<connVars, bufVars, pipeVars, obVars, cxVars, sessVars, waitVars>>

\* Lines 175-177: on_response (handle_agent_response, main.py 279-282) with
\* the complete reply.  A failing notification goes to the inner handler.
RunOnResponse ==
    /\ pipe_pc = "alive"
    /\ wf_pc = "on_response"
    /\ notified' = Delivered(notified, Msg("workflow", "agent_response", Join(full_response)))
    /\ UNCHANGED <<engine_input, result_last_agent, new_history>>
    /\ IF TransportOpen
       THEN /\ wf_pc' = "reconcile"
            /\ UNCHANGED turn_failures
       ELSE /\ wf_pc' = "inner_yield"
            /\ turn_failures' = turn_failures \cup {"on_response"}
    /\ UNCHANGED <<transcription, service_resp, correction, processed_text,
                   full_response, yielded, input_history, current_agent,
                   prior_history>>
    /\ UNCHANGED <<transport, wire, ib_pc, eos_count, frames_sent, ib_data>>
    /\ UNCHANGED <<bufVars, pipeVars, obVars, cxVars, sessVars, waitVars>>

\* Lines 179-210: the returned history is reconciled and the agent updated.
RunReconcile(ret) ==
    /\ pipe_pc = "alive"
    /\ wf_pc = "reconcile"
    /\ new_history' = ret
    /\ input_history' = Reconcile(input_history, ret, Join(full_response))
    /\ current_agent' = AgentAfterTurn(current_agent, result_last_agent)
    /\ UNCHANGED <<engine_input, result_last_agent>>
    /\ wf_pc' = "returned"
    /\ UNCHANGED <<transcription, service_resp, correction, processed_text,
                   full_response, yielded, prior_history, turn_failures>>
    /\ UNCHANGED <<connVars, bufVars, pipeVars, obVars, cxVars, sessVars, waitVars>>

\* The handler of lines 212-219 taking over the agent the engine reported.
AgentAfterFailureReported(current, reported) ==
    IF reported = NoAgent THEN current ELSE reported

\* Lines 212-219: line 210 was not reached and the handler assigns no agent.
AgentAfterFailure(current, reported) == current

\* Lines 212-215: the inner handler yields error_msg.
RunInnerYield ==
    /\ pipe_pc = "alive"
    /\ wf_pc = "inner_yield"
    /\ yielded' = Append(yielded, ApologyTechnical)
    /\ current_agent' = AgentAfterFailure(current_agent, result_last_agent)
    /\ UNCHANGED <<engine_input, result_last_agent, new_history>>
    /\ events' = Queued(<<AudioEvent(TtsSamples(ApologyTechnical))>>)
    /\ wf_pc' = "inner_notify"
    /\ UNCHANGED <<transcription, service_resp, correction, processed_text,
                   full_response, input_history, prior_history,
                   turn_failures>>
    /\ UNCHANGED <<pipe_pc, turns_started>>
    /\ UNCHANGED <<connVars, bufVars, obVars, cxVars, sessVars, waitVars>>

\* Lines 216-219: on_response(error_msg), then the apology enters the history.
RunInnerNotify ==
    /\ pipe_pc = "alive"
    /\ wf_pc = "inner_notify"
    /\ notified' = Delivered(notified, Msg("workflow", "agent_response", ApologyTechnical))
    /\ UNCHANGED <<engine_input, result_last_agent, new_history>>
    /\ IF TransportOpen
       THEN /\ input_history' = Append(input_history, Entry("assistant", ApologyTechnical))
            /\ wf_pc' = "returned"
            /\ UNCHANGED turn_failures
       ELSE /\ wf_pc' = "outer_yield"
            /\ turn_failures' = turn_failures \cup {"on_response_apology"}
            /\ UNCHANGED input_history
    /\ UNCHANGED <<transcription, service_resp, correction, processed_text,
                   full_response, yielded, current_agent, prior_history>>
    /\ UNCHANGED <<transport, wire, ib_pc, eos_count, frames_sent, ib_data>>
    /\ UNCHANGED <<bufVars, pipeVars, obVars, cxVars, sessVars, waitVars>>

\* Lines 221-224: the outer handler yields error_response.
RunOuterYield ==
    /\ pipe_pc = "alive"
    /\ wf_pc = "outer_yield"
    /\ yielded' = Append(yielded, ApologyGeneric)
    /\ UNCHANGED <<engine_input, result_last_agent, new_history>>
    /\ events' = Queued(<<AudioEvent(TtsSamples(ApologyGeneric))>>)
    /\ wf_pc' = "outer_notify"
    /\ UNCHANGED <<transcription, service_resp, correction, processed_text,
                   full_response, input_history, current_agent, prior_history,
                   turn_failures>>
    /\ UNCHANGED <<pipe_pc, turns_started>>
    /\ UNCHANGED <<connVars, bufVars, obVars, cxVars, sessVars, waitVars>>

\* Lines 225-226: on_response(error_response); if it raises, run() raises.
RunOuterNotify ==
    /\ pipe_pc = "alive"
    /\ wf_pc = "outer_notify"
    /\ notified' = Delivered(notified, Msg("workflow", "agent_response", ApologyGeneric))
    /\ UNCHANGED <<engine_input, result_last_agent, new_history>>
    /\ wf_pc' = IF TransportOpen THEN "returned" ELSE "raised"
    /\ UNCHANGED <<transcription, service_resp, correction, processed_text,
                   full_response, yielded, input_history, current_agent,
                   prior_history, turn_failures>>
    /\ UNCHANGED <<transport, wire, ib_pc, eos_count, frames_sent, ib_data>>
    /\ UNCHANGED <<bufVars, pipeVars, obVars, cxVars, sessVars, waitVars>>

----------------------------------------------------------------------------
(* The voice pipeline as run_pipeline and run() see it                     *)

\* The turn is over: the pipeline reports it with a lifecycle event.
PipelineEndTurn ==
    /\ pipe_pc = "alive"
    /\ wf_pc = "returned"
    /\ events' = Queued(<<LifecycleEvent("completed")>>)
    /\ wf_pc' = "idle"
    /\ UNCHANGED <<pipe_pc, turns_started>>
    /\ UNCHANGED <<engine_input, result_last_agent, new_history>>
    /\ UNCHANGED <<transcription, service_resp, correction, processed_text,
                   full_response, yielded, input_history, current_agent,
                   prior_history, turn_failures>>
    /\ UNCHANGED <<connVars, bufVars, obVars, cxVars, sessVars, waitVars>>

\* run() raised: the pipeline re-raises it out of result.stream().
PipelinePropagates ==
    /\ pipe_pc = "alive"
    /\ wf_pc = "raised"
    /\ events' = Queued(<<StreamRaises>>)
    /\ pipe_pc' = "dead"
    /\ UNCHANGED turns_started
    /\ UNCHANGED <<connVars, bufVars, obVars, wfVars, cxVars, sessVars, waitVars>>

\* A stage of the pipeline itself fails (speech-to-text, text-to-speech).
PipelineFails ==
    /\ pipe_pc = "alive"
    /\ events' = Queued(<<StreamRaises>>)
    /\ pipe_pc' = "dead"
    /\ UNCHANGED turns_started
    /\ UNCHANGED <<connVars, bufVars, obVars, wfVars, cxVars, sessVars, waitVars>>

\* The event stream ends normally between two turns.
PipelineEnds ==
    /\ pipe_pc = "alive"
    /\ wf_pc = "idle"
    /\ events' = Queued(<<StreamEnds>>)
    /\ pipe_pc' = "dead"
    /\ UNCHANGED turns_started
    /\ UNCHANGED <<connVars, bufVars, obVars, wfVars, cxVars, sessVars, waitVars>>

----------------------------------------------------------------------------
(* run_pipeline: the outbound task (main.py 217-269)                       *)

PacketThreshold == 4800

Packet(chunks) == Msg("outbound", "audio", chunks)

\* The task has returned, failed or been cancelled.
ObEnded(pc) == pc \in {"done", "failed", "cancelled"}

\* Line 238 with any non-empty accumulator counted as large enough.
ReachedThresholdAny(size) == size > 0

\* Line 238: buffer_size >= 4800
ReachedThreshold(size) == size >= PacketThreshold

\* Lines 230-235 with the earlier data dropped instead of concatenated.
AccumulatedLatest(buf, none, n) == <<n>>

\* The accumulator after lines 230-235 took in data of length n.
Accumulated(buf, none, n) == IF none THEN <<n>> ELSE Append(buf, n)
AccumulatedSize(size, none, n) == IF none THEN n ELSE size + n

\* Line 219: pipeline.run returns the result, or raises.
ObStart(raises) ==
    /\ ob_pc = "start"
    /\ ob_pc' = IF raises THEN "err_send" ELSE "loop"
    /\ UNCHANGED <<ob_event, audio_received, audio_buffer, buffer_is_none,
                   buffer_size, ob_attempts>>
    /\ UNCHANGED <<connVars, bufVars, pipeVars, wfVars, cxVars, sessVars, waitVars>>

\* Lines 226-241: an audio event is accumulated, and sent once 4800 samples
\* are there.
ObAudio ==
    /\ ob_pc = "loop"
    /\ events # <<>>
    /\ Head(events).type = "voice_stream_event_audio"
    /\ events' = Tail(events)
    /\ LET n == Head(events).len
           buf == Accumulated(audio_buffer, buffer_is_none, n)
           size == AccumulatedSize(buffer_size, buffer_is_none, n)
       IN  IF n < 0                                  \* event.data is None
           THEN UNCHANGED <<ob_pc, audio_received, audio_buffer, buffer_is_none,
                            buffer_size, ob_attempts, wire>>
           ELSE /\ audio_received' = Append(audio_received, n)
                /\ IF ReachedThreshold(size)
                    THEN /\ ob_attempts' = ob_attempts + 1
                         /\ wire' = Delivered(wire, Packet(buf))
                         /\ IF TransportOpen
                            THEN /\ audio_buffer' = <<>>
                                 /\ buffer_is_none' = TRUE
                                 /\ buffer_size' = 0
                                 /\ UNCHANGED ob_pc
                            ELSE /\ audio_buffer' = buf
                                 /\ buffer_is_none' = FALSE
                                 /\ buffer_size' = size
                                 /\ ob_pc' = "err_send"
                    ELSE /\ audio_buffer' = buf
                         /\ buffer_is_none' = FALSE
                         /\ buffer_size' = size
                         /\ UNCHANGED <<ob_pc, ob_attempts, wire>>
    /\ UNCHANGED <<ob_event, pipe_pc, turns_started>>
    /\ UNCHANGED <<transport, notified, ib_pc, eos_count, frames_sent, ib_data>>
    /\ UNCHANGED <<bufVars, wfVars, cxVars, sessVars, waitVars>>

\* The test of lines 244 and 260 never finding audio to flush.
HasRemainderNever == FALSE

\* Is there accumulated audio to flush (lines 244 and 260)?
HasRemainder == ~buffer_is_none /\ buffer_size > 0

\* Lines 242-247: a lifecycle event first flushes the accumulated audio.
ObLifecycleFlush ==
    /\ ob_pc = "loop"
    /\ events # <<>>
    /\ Head(events).type = "voice_stream_event_lifecycle"
    /\ events' = Tail(events)
    /\ ob_event' = Head(events).event
    /\ UNCHANGED audio_received
    /\ IF HasRemainder
       THEN /\ ob_attempts' = ob_attempts + 1
            /\ wire' = Delivered(wire, Packet(audio_buffer))
            /\ IF TransportOpen
               THEN /\ audio_buffer' = <<>>
                    /\ buffer_is_none' = TRUE
                    /\ buffer_size' = 0
                    /\ ob_pc' = "lc_send"
               ELSE /\ ob_pc' = "err_send"
                    /\ UNCHANGED <<audio_buffer, buffer_is_none, buffer_size>>
       ELSE /\ ob_pc' = "lc_send"
            /\ UNCHANGED <<audio_buffer, buffer_is_none, buffer_size, ob_attempts, wire>>
    /\ UNCHANGED <<pipe_pc, turns_started>>
    /\ UNCHANGED <<transport, notified, ib_pc, eos_count, frames_sent, ib_data>>
    /\ UNCHANGED <<bufVars, wfVars, cxVars, sessVars, waitVars>>

\* The test of line 254 passing for every lifecycle event.
SignalsCompletionAlways(event) == TRUE

\* Line 254: event.event == "completed"
SignalsCompletion(event) == event = "completed"

\* Lines 249-251: the lifecycle event is relayed.
ObLifecycleSend ==
    /\ ob_pc = "lc_send"
    /\ ob_attempts' = ob_attempts + 1
    /\ wire' = Delivered(wire, Msg("outbound", "lifecycle", <<ob_event>>))
    /\ ob_pc' = IF ~TransportOpen THEN "err_send"
                ELSE IF SignalsCompletion(ob_event) THEN "lc_complete" ELSE "loop"
    /\ UNCHANGED <<ob_event, audio_received, audio_buffer, buffer_is_none, buffer_size>>
    /\ UNCHANGED <<transport, notified, ib_pc, eos_count, frames_sent, ib_data>>
    /\ UNCHANGED <<bufVars, pipeVars, wfVars, cxVars, sessVars, waitVars>>

\* Lines 254-257: processing_complete after a "completed" event.
ObLifecycleComplete ==
    /\ ob_pc = "lc_complete"
    /\ ob_attempts' = ob_attempts + 1
    /\ wire' = Delivered(wire, Msg("outbound", "processing_complete", <<>>))
    /\ ob_pc' = IF TransportOpen THEN "loop" ELSE "err_send"
    /\ UNCHANGED <<ob_event, audio_received, audio_buffer, buffer_is_none, buffer_size>>
    /\ UNCHANGED <<transport, notified, ib_pc, eos_count, frames_sent, ib_data>>
    /\ UNCHANGED <<bufVars, pipeVars, wfVars, cxVars, sessVars, waitVars>>

\* Lines 259-261: the stream has ended; the remainder is sent.
ObStreamEnd ==
    /\ ob_pc = "loop"
    /\ events # <<>>
    /\ Head(events).type = "end"
    /\ events' = Tail(events)
    /\ UNCHANGED audio_received
    /\ IF HasRemainder
       THEN /\ ob_attempts' = ob_attempts + 1
            /\ wire' = Delivered(wire, Packet(audio_buffer))
            /\ ob_pc' = IF TransportOpen THEN "done" ELSE "err_send"
       ELSE /\ ob_pc' = "done"
            /\ UNCHANGED <<ob_attempts, wire>>
    /\ UNCHANGED <<ob_event, audio_received, audio_buffer, buffer_is_none, buffer_size>>
    /\ UNCHANGED <<pipe_pc, turns_started>>
    /\ UNCHANGED <<transport, notified, ib_pc, eos_count, frames_sent, ib_data>>
    /\ UNCHANGED <<bufVars, wfVars, cxVars, sessVars, waitVars>>

\* Line 225 raises: the except clause of line 263 is entered.
ObStreamRaises ==
    /\ ob_pc = "loop"
    /\ events # <<>>
    /\ Head(events).type = "raise"
    /\ events' = Tail(events)
    /\ ob_pc' = "err_send"
    /\ UNCHANGED <<ob_event, audio_received, audio_buffer, buffer_is_none,
                   buffer_size, ob_attempts>>
    /\ UNCHANGED <<pipe_pc, turns_started>>
    /\ UNCHANGED <<connVars, bufVars, wfVars, cxVars, sessVars, waitVars>>

\* What the except clause writes first and second (lines 264-269).
ErrorHandlerWritesReversed == <<"processing_complete", "error">>
ErrorHandlerWrites == <<"error", "processing_complete">>

\* Lines 264-266: the error message.  A raise here leaves the task.
ObErrorSend ==
    /\ ob_pc = "err_send"
    /\ ob_attempts' = ob_attempts + 1
    /\ wire' = Delivered(wire, Msg("outbound", ErrorHandlerWrites[1], <<>>))
    /\ ob_pc' = IF TransportOpen THEN "err_complete" ELSE "failed"
    /\ UNCHANGED <<ob_event, audio_received, audio_buffer, buffer_is_none, buffer_size>>
    /\ UNCHANGED <<transport, notified, ib_pc, eos_count, frames_sent, ib_data>>
    /\ UNCHANGED <<bufVars, pipeVars, wfVars, cxVars, sessVars, waitVars>>

\* Line 269: processing_complete, and run_pipeline returns.
ObErrorComplete ==
    /\ ob_pc = "err_complete"
    /\ ob_attempts' = ob_attempts + 1
    /\ wire' = Delivered(wire, Msg("outbound", ErrorHandlerWrites[2], <<>>))
    /\ ob_pc' = IF TransportOpen THEN "done" ELSE "failed"
    /\ UNCHANGED <<ob_event, audio_received, audio_buffer, buffer_is_none, buffer_size>>
    /\ UNCHANGED <<transport, notified, ib_pc, eos_count, frames_sent, ib_data>>
    /\ UNCHANGED <<bufVars, pipeVars, wfVars, cxVars, sessVars, waitVars>>

----------------------------------------------------------------------------
(* StreamedAudioInputWithEndDetection (main.py 74-116)                     *)

FlushThreshold == 24000
SilenceThreshold == 100
LowEnergyFloor == 50
Int16Min == 32768       \* np.int16 samples lie in -32768..32767

\* An inbound binary frame: undecodable, or len samples of which mins are
\* -32768 and the others have absolute value amp.
BadFrame == [ok |-> FALSE, len |-> 0, amp |-> 0, mins |-> 0]
Frame(len, amp) == [ok |-> TRUE, len |-> len, amp |-> amp, mins |-> 0]
FrameWithMins(len, amp, mins) == [ok |-> TRUE, len |-> len, amp |-> amp, mins |-> mins]
SessionFrames == {BadFrame, Frame(12000, 10)}

\* np.sum(np.abs(audio_data)) on int16 data: np.abs(-32768) is -32768.
NumpyAbsSum(frame) == (frame.len - frame.mins) * frame.amp - Int16Min * frame.mins

\* The test of line 178 never dropping a frame.
LowEnergyNever(frame) == FALSE

\* Lines 177-178: np.mean(np.abs(audio_data)) < 50; the mean of an empty
\* frame is nan, which is not below 50.
LowEnergy(frame) == frame.len > 0 /\ NumpyAbsSum(frame) < LowEnergyFloor * frame.len

\* Lines 182-183 letting the exception leave the loop.
AfterFrameErrorFatal(pc) == "done"

\* Lines 182-183: the exception of a frame is caught inside the loop.
AfterFrameError(pc) == pc

\* add_audio forwarding as soon as the threshold is reached.
add_audioInclusive(plen, psum, pmins, silence, chunks, frame) ==
    LET len == plen + frame.len
        sum == psum + NumpyAbsSum(frame)
    IN  IF len >= FlushThreshold
        THEN <<0, 0, 0,
               IF sum < SilenceThreshold * len THEN silence + 1 ELSE 0,
               Append(chunks, len)>>
        ELSE <<len, sum, pmins + frame.mins, silence, chunks>>

\* add_audio (lines 84-100) as the new <<pending_len, pending_abs_sum,
\* pending_mins, silence_frames, stt_chunks>>.
add_audio(plen, psum, pmins, silence, chunks, frame) ==
    LET len == plen + frame.len
        sum == psum + NumpyAbsSum(frame)
    IN  IF len > FlushThreshold
        THEN <<0, 0, 0,
               IF sum < SilenceThreshold * len THEN silence + 1 ELSE 0,
               Append(chunks, len)>>
        ELSE <<len, sum, pmins + frame.mins, silence, chunks>>

\* signal_end_of_speech dropping the remainder.
signal_end_of_speechDropping(plen, tasks) == tasks

\* signal_end_of_speech (lines 102-108): a task is created that forwards the
\* remainder; the new list of such tasks.
signal_end_of_speech(plen, tasks) ==
    IF plen > 0 THEN Append(tasks, plen) ELSE tasks

\* Line 106: the created task runs super().add_audio(buffer).
FlushTaskRuns ==
    /\ flush_tasks # <<>>
    /\ stt_chunks' = Append(stt_chunks, Head(flush_tasks))
    /\ flush_tasks' = Tail(flush_tasks)
    /\ stt_starts' = Append(stt_starts, Head(task_starts))
    /\ task_starts' = Tail(task_starts)
    /\ UNCHANGED <<pending_len, pending_abs_sum, pending_mins, silence_frames,
                   end_of_speech_detected, admitted>>
    /\ UNCHANGED <<connVars, waitVars, pipeVars, obVars, wfVars, cxVars, sessVars>>

\* Lines 112-116 with the two answers exchanged.
WaitResultInverted(signalled) == IF signalled THEN "false" ELSE "true"

\* Lines 112-116 answering True whatever happened.
WaitResultAlwaysTrue(signalled) == "true"

\* Lines 112-116: True when the wait completed, False on TimeoutError.
WaitResult(signalled) == IF signalled THEN "true" ELSE "false"

\* wait_for_end_of_speech(timeout) is called (line 110).
WaitBegin(timeout) ==
    /\ wait_pc # "waiting"
    /\ wait_pc' = "waiting"
    /\ wait_left' = timeout
    /\ UNCHANGED <<connVars, bufVars, pipeVars, obVars, wfVars, cxVars, sessVars>>

\* Time passes while the gate is not set.
WaitTick ==
    /\ wait_pc = "waiting"
    /\ ~end_of_speech_detected
    /\ wait_left > 0
    /\ wait_left' = wait_left - 1
    /\ UNCHANGED wait_pc
    /\ UNCHANGED <<connVars, bufVars, pipeVars, obVars, wfVars, cxVars, sessVars>>

\* Lines 113-116: the gate is set, or the timeout has elapsed.
WaitReturns ==
    /\ wait_pc = "waiting"
    /\ end_of_speech_detected \/ wait_left = 0
    /\ wait_pc' = WaitResult(end_of_speech_detected)
    /\ UNCHANGED wait_left
    /\ UNCHANGED <<connVars, bufVars, pipeVars, obVars, wfVars, cxVars, sessVars>>

----------------------------------------------------------------------------
(* websocket_endpoint: the inbound loop (main.py 167-214)                  *)

\* What websocket.receive() gave back (line 170).
Received(kind, frame, text) == [kind |-> kind, frame |-> frame, text |-> text]
NoData == Received("none", BadFrame, "")

\* pipeline_task.cancel() with the CancelledError caught by the except
\* clause of run_pipeline.
CancelCaught(pc) == IF ObEnded(pc) THEN pc ELSE "err_send"

\* pipeline_task.cancel(): a task that has not finished is cancelled at the
\* await it is suspended in; CancelledError passes "except Exception".
Cancel(pc) == IF ObEnded(pc) THEN pc ELSE "cancelled"

\* Lines 172-183: a binary frame; at most limit frames reach add_audio.
IbBinary(frame, limit) ==
    /\ TransportOpen
    /\ ib_pc = "loop"
    /\ ib_data' = Received("bytes", frame, "")
    /\ IF ~frame.ok                        \* np.frombuffer raises: frame dropped
       THEN /\ ib_pc' = AfterFrameError(ib_pc)
            /\ UNCHANGED <<pending_len, pending_abs_sum, pending_mins,
                           silence_frames, stt_chunks, frames_sent,
                           admitted, stt_starts>>
       ELSE IF LowEnergy(frame)            \* energy < 50: continue
            THEN UNCHANGED <<ib_pc, pending_len, pending_abs_sum, pending_mins,
                             silence_frames, stt_chunks, frames_sent,
                             admitted, stt_starts>>
            ELSE LET r == add_audio(pending_len, pending_abs_sum, pending_mins,
                                    silence_frames, stt_chunks, frame)
                 IN  /\ frames_sent < limit
                     /\ frames_sent' = frames_sent + 1
                     /\ pending_len' = r[1]
                     /\ pending_abs_sum' = r[2]
                     /\ pending_mins' = r[3]
                     /\ silence_frames' = r[4]
                     /\ stt_chunks' = r[5]
                     /\ admitted' = admitted + frame.len
                     /\ stt_starts' = IF r[5] = stt_chunks
                                      THEN stt_starts
                                      ELSE Append(stt_starts, admitted - pending_len)
                     /\ UNCHANGED ib_pc
    /\ UNCHANGED <<transport, wire, notified, eos_count, end_of_speech_detected,
                   flush_tasks, task_starts>>
    /\ UNCHANGED <<waitVars, pipeVars, obVars, wfVars, cxVars, sessVars>>

\* Lines 190-195 announcing the end of processing instead.
ProcessingSpeechAsComplete == Msg("inbound", "lifecycle", <<"processing_complete">>)

\* Lines 190-195: {"type": "lifecycle", "event": "processing_speech"}
ProcessingSpeech == Msg("inbound", "lifecycle", <<"processing_speech">>)

\* Line 188 taking every JSON object for an end_of_speech message.
HandledAsEndOfSpeechAnyObject(kind) == kind \in {"end_of_speech", "other_type"}

\* Lines 187-188: json.loads succeeds, the value has .get, and its type is
\* "end_of_speech".
HandledAsEndOfSpeech(kind) == kind = "end_of_speech"

\* Lines 184-199: a text payload.
TextKinds == {"other_type", "not_json", "not_object"}
IbText(kind) ==
    /\ ib_pc = "loop"
    /\ ib_data' = Received("text", BadFrame, kind)
    /\ IF HandledAsEndOfSpeech(kind)
       THEN /\ eos_count < MaxUtterances
            /\ eos_count' = eos_count + 1
            /\ flush_tasks' = signal_end_of_speech(pending_len, flush_tasks)
            /\ task_starts' = IF flush_tasks' = flush_tasks
                              THEN task_starts
                              ELSE Append(task_starts, admitted - pending_len)
            /\ pending_len' = 0
            /\ pending_abs_sum' = 0
            /\ pending_mins' = 0
            /\ end_of_speech_detected' = TRUE
            /\ wire' = Delivered(wire, ProcessingSpeech)
       ELSE UNCHANGED <<eos_count, flush_tasks, task_starts, pending_len,
                        pending_abs_sum, pending_mins, end_of_speech_detected, wire>>
    /\ UNCHANGED <<transport, notified, ib_pc, frames_sent, silence_frames, stt_chunks,
                   admitted, stt_starts>>
    /\ UNCHANGED <<waitVars, pipeVars, obVars, wfVars, cxVars, sessVars>>

\* A text payload that is not JSON, not an object, or of another type.
IbTextIgnored(kind) == kind \in TextKinds /\ TransportOpen /\ IbText(kind)

\* Lines 187-195: end_of_speech.
IbEndOfSpeech == TransportOpen /\ IbText("end_of_speech")

\* Lines 187-199: an end_of_speech the client sent just before it went away
\* is read from the receive queue; signal_end_of_speech runs, the send of
\* lines 190-195 raises and the except of line 198 keeps the loop going.
IbEndOfSpeechLate == ~TransportOpen /\ IbText("end_of_speech")

\* Lines 201-203: the disconnect is observed as WebSocketDisconnect.
IbDisconnect ==
    /\ ~TransportOpen
    /\ ib_pc = "loop"
    /\ ib_pc' = "done"
    /\ ob_pc' = Cancel(ob_pc)
    /\ UNCHANGED <<transport, wire, notified, eos_count, frames_sent, ib_data>>
    /\ UNCHANGED <<ob_event, audio_received, audio_buffer, buffer_is_none,
                   buffer_size, ob_attempts>>
    /\ UNCHANGED <<bufVars, pipeVars, wfVars, cxVars, sessVars, waitVars>>

\* Lines 204-214: receive() fails with another exception once the client is
\* gone; an error message is attempted before the cancel.
IbUnexpected ==
    /\ ~TransportOpen
    /\ ib_pc = "loop"
    /\ wire' = Delivered(wire, Msg("inbound", "error", <<>>))
    /\ ib_pc' = "done"
    /\ ob_pc' = Cancel(ob_pc)
    /\ UNCHANGED <<transport, notified, eos_count, frames_sent, ib_data>>
    /\ UNCHANGED <<ob_event, audio_received, audio_buffer, buffer_is_none,
                   buffer_size, ob_attempts>>
    /\ UNCHANGED <<bufVars, pipeVars, wfVars, cxVars, sessVars, waitVars>>

\* The client goes away.
ClientDisconnect ==
    /\ TransportOpen
    /\ transport' = "closed"
    /\ UNCHANGED <<wire, notified, ib_pc, eos_count, frames_sent, ib_data>>
    /\ UNCHANGED <<bufVars, pipeVars, obVars, wfVars, cxVars, sessVars, waitVars>>

----------------------------------------------------------------------------
(* Specifications                                                          *)

\* The connections of the process (lines 119-122): what each holds, and the
\* operation performed last.
Connections == {1, 2}
NotConnected == [state |-> "new", audio_input |-> 0, workflow |-> 0, ops |-> 0]
NoOp == [connection |-> 0, op |-> "none"]
Op(c, op) == [connection |-> c, op |-> op]

\* The state after websocket_endpoint has set the session up (lines 121-165)
\* and HealthcareVoiceWorkflow.__init__ has run (lines 33-37).
SessionInit ==
    /\ transport = "open"
    /\ wire = <<>>
    /\ notified = <<>>
    /\ ib_pc = "loop"
    /\ eos_count = 0
    /\ frames_sent = 0
    /\ ib_data = NoData
    /\ pending_len = 0
    /\ pending_abs_sum = 0
    /\ pending_mins = 0
    /\ silence_frames = 0
    /\ stt_chunks = <<>>
    /\ end_of_speech_detected = FALSE
    /\ flush_tasks = <<>>
    /\ admitted = 0
    /\ stt_starts = <<>>
    /\ task_starts = <<>>
    /\ wait_pc = "idle"
    /\ wait_left = 0
    /\ active_connections = <<>>
    /\ audio_inputs = <<>>
    /\ workflows = <<>>
    /\ conn = [c \in Connections |-> NotConnected]
    /\ last_op = NoOp
    /\ pipe_pc = "alive"
    /\ turns_started = 0
    /\ events = <<>>
    /\ ob_pc = "start"
    /\ ob_event = ""
    /\ audio_buffer = <<>>
    /\ buffer_is_none = TRUE
    /\ buffer_size = 0
    /\ ob_attempts = 0
    /\ wf_pc = "idle"
    /\ transcription = <<>>
    /\ service_resp = NoResponse
    /\ correction = NoCorrection
    /\ processed_text = <<>>
    /\ full_response = <<>>
    /\ yielded = <<>>
    /\ input_history = <<>>
    /\ current_agent = "main_agent"
    /\ prior_history = <<>>
    /\ turn_failures = {}
    /\ engine_input = NoHistory
    /\ result_last_agent = NoAgent
    /\ new_history = NoHistory
    /\ audio_received = <<>>

Init ==
    /\ SessionInit
    /\ cx_transcription = <<>>
    /\ cx_resp = NoResponse
    /\ cx_result = NoCorrection
    /\ cx_pc = "unused"

\* The steps of run() and of the pipeline driving it, on the session's inputs.
WorkflowStep ==
    \/ \E t \in Transcripts : RunBegin(t)
    \/ \E resp \in SessionResponses : RunCorrect(resp)
    \/ RunOnStart
    \/ \E chunk \in SessionFragments : RunStreamChunk(chunk, SessionMaxChunks)
    \/ RunStreamRaises
    \/ RunStreamEnds("main_agent")
    \/ RunOnResponse
    \/ \E ret \in SessionReturnedHistories(input_history, Join(full_response)) :
          RunReconcile(ret)
    \/ RunInnerYield
    \/ RunInnerNotify
    \/ RunOuterYield
    \/ RunOuterNotify
    \/ PipelineEndTurn
    \/ PipelinePropagates

OutboundStep ==
    \/ ObStart(FALSE)
    \/ ObAudio
    \/ ObLifecycleFlush
    \/ ObLifecycleSend
    \/ ObLifecycleComplete
    \/ ObStreamEnd
    \/ ObStreamRaises
    \/ ObErrorSend
    \/ ObErrorComplete

InboundStep ==
    \/ \E frame \in SessionFrames : IbBinary(frame, MaxFrames)
    \/ \E kind \in TextKinds : IbTextIgnored(kind)
    \/ IbEndOfSpeech
    \/ IbEndOfSpeechLate
    \/ IbDisconnect
    \/ IbUnexpected

EnvironmentStep ==
    \/ ClientDisconnect
    \/ PipelineFails
    \/ PipelineEnds
    \/ ObStart(TRUE)

Next == WorkflowStep \/ OutboundStep \/ InboundStep \/ EnvironmentStep

Spec == Init /\ [][Next]_vars

\* run() alone, turn after turn, on the full range of inputs: the client
\* ends utterances and may go away, the pipeline hands transcripts to run().
TurnNext ==
    \/ \E t \in Transcripts : RunBegin(t)
    \/ \E resp \in TurnResponses : RunCorrect(resp)
    \/ RunOnStart
    \/ \E chunk \in Fragments : RunStreamChunk(chunk, MaxChunks)
    \/ RunStreamRaises
    \/ \E a \in Agents : RunStreamEnds(a)
    \/ RunOnResponse
    \/ \E ret \in ReturnedHistories(input_history, Join(full_response)) :
          RunReconcile(ret)
    \/ RunInnerYield
    \/ RunInnerNotify
    \/ RunOuterYield
    \/ RunOuterNotify
    \/ PipelineEndTurn
    \/ PipelinePropagates
    \/ IbEndOfSpeech
    \/ ClientDisconnect

SpecTurn == Init /\ [][TurnNext]_vars

\* run_pipeline alone on every event stream the pipeline can produce: audio
\* events without data (len -1), with empty data and with data shorter and
\* longer than a packet, lifecycle events, then the end of the stream, an
\* exception, or nothing more.
StreamAlphabet ==
    {AudioEvent(n) : n \in {-1, 0, 2000, 3000, 5000}}
    \cup {LifecycleEvent(name) : name \in {"turn_started", "completed"}}

StreamEndings == {<<>>, <<StreamEnds>>, <<StreamRaises>>}

EventStreams ==
    {body \o ending :
        body \in UNION {[1..n -> StreamAlphabet] : n \in 0..MaxStreamEvents},
        ending \in StreamEndings}

OutboundInit ==
    /\ events \in EventStreams
    /\ transport = "open"
    /\ wire = <<>>
    /\ notified = <<>>
    /\ ib_pc = "loop"
    /\ eos_count = 0
    /\ frames_sent = 0
    /\ ib_data = NoData
    /\ pending_len = 0
    /\ pending_abs_sum = 0
    /\ pending_mins = 0
    /\ silence_frames = 0
    /\ stt_chunks = <<>>
    /\ end_of_speech_detected = FALSE
    /\ flush_tasks = <<>>
    /\ admitted = 0
    /\ stt_starts = <<>>
    /\ task_starts = <<>>
    /\ wait_pc = "idle"
    /\ wait_left = 0
    /\ active_connections = <<>>
    /\ audio_inputs = <<>>
    /\ workflows = <<>>
    /\ conn = [c \in Connections |-> NotConnected]
    /\ last_op = NoOp
    /\ pipe_pc = "alive"
    /\ turns_started = 0
    /\ ob_pc = "start"
    /\ ob_event = ""
    /\ audio_received = <<>>
    /\ audio_buffer = <<>>
    /\ buffer_is_none = TRUE
    /\ buffer_size = 0
    /\ ob_attempts = 0
    /\ wf_pc = "idle"
    /\ transcription = <<>>
    /\ service_resp = NoResponse
    /\ correction = NoCorrection
    /\ processed_text = <<>>
    /\ full_response = <<>>
    /\ yielded = <<>>
    /\ input_history = <<>>
    /\ current_agent = "main_agent"
    /\ prior_history = <<>>
    /\ turn_failures = {}
    /\ engine_input = NoHistory
    /\ result_last_agent = NoAgent
    /\ new_history = NoHistory
    /\ cx_transcription = <<>>
    /\ cx_resp = NoResponse
    /\ cx_result = NoCorrection
    /\ cx_pc = "unused"

OutboundNext ==
    \/ OutboundStep
    \/ ClientDisconnect
    \/ IbDisconnect

SpecOutbound == OutboundInit /\ [][OutboundNext]_vars

\* The inbound loop and its audio buffer on frames that are admitted, with a
\* caller of wait_for_end_of_speech: frames below and above both energy
\* tests, a clipped frame, an empty one and an undecodable one.
ClippedFrame == FrameWithMins(12001, 32767, 5990)
BufferFrames ==
    {BadFrame, Frame(0, 0), Frame(12000, 10), Frame(12000, 60),
     Frame(12001, 200), Frame(25000, 60), ClippedFrame}
Timeouts == {-1} \cup (1..MaxWait)

BufferNext ==
    \/ \E frame \in BufferFrames : IbBinary(frame, BufferMaxFrames)
    \/ \E kind \in TextKinds : IbTextIgnored(kind)
    \/ IbEndOfSpeech
    \/ IbEndOfSpeechLate
    \/ FlushTaskRuns
    \/ \E timeout \in Timeouts : WaitBegin(timeout)
    \/ WaitTick
    \/ WaitReturns
    \/ ClientDisconnect
    \/ IbDisconnect
    \/ IbUnexpected

SpecBuffer == Init /\ [][BufferNext]_vars

\* The event loop runs every task that is ready (line 106's task included).
FairSpecBuffer == SpecBuffer /\ WF_vars(FlushTaskRuns)


----------------------------------------------------------------------------
(* Two connections served by the same process (main.py 119-214)            *)

\* StreamedAudioInputWithEndDetection.__init__ (lines 77-82).
NewAudioInput ==
    [pending_len |-> 0, pending_abs_sum |-> 0, pending_mins |-> 0,
     silence_frames |-> 0, end_of_speech_detected |-> FALSE]

\* HealthcareVoiceWorkflow.__init__ (voice_workflow.py 33-34).
NewWorkflow == [input_history |-> <<>>, current_agent |-> "main_agent"]

\* A constructor call handing back an object that exists already.
NewInstanceShared(heap) == 1

\* A constructor call creates an object that no one else holds.
NewInstance(heap) == Len(heap) + 1

\* The objects after object id has been constructed as obj.
Constructed(heap, id, obj) ==
    IF id > Len(heap) THEN Append(heap, obj) ELSE [heap EXCEPT ![id] = obj]

\* list.remove (line 56).
Removed(list, x) == SelectSeq(list, LAMBDA y : y # x)

ConnectionFrames == {Frame(12000, 10), Frame(13000, 60), Frame(12001, 200)}
ConnectionTexts == {<<"h", "i">>}
ConnectionReplies == {<<"y", "o">>}

\* Lines 121-165: accept, register, construct the connection's objects.
Connect(c) ==
    /\ conn[c].state = "new"
    /\ LET a == NewInstance(audio_inputs)
           w == NewInstance(workflows)
       IN  /\ audio_inputs' = Constructed(audio_inputs, a, NewAudioInput)
           /\ workflows' = Constructed(workflows, w, NewWorkflow)
           /\ conn' = [conn EXCEPT ![c] = [state |-> "open", audio_input |-> a,
                                           workflow |-> w, ops |-> 0]]
    /\ active_connections' = Append(active_connections, c)
    /\ last_op' = Op(c, "connect")
    /\ UNCHANGED <<connVars, bufVars, waitVars, pipeVars, obVars, wfVars, cxVars>>

Operates(c, op) ==
    /\ conn[c].state = "open"
    /\ conn[c].ops < MaxOps
    /\ conn' = [conn EXCEPT ![c].ops = @ + 1]
    /\ last_op' = Op(c, op)
    /\ UNCHANGED active_connections
    /\ UNCHANGED <<connVars, bufVars, waitVars, pipeVars, obVars, wfVars, cxVars>>

\* Lines 172-183 on the connection's own audio_input.
ConnFrame(c, frame) ==
    /\ Operates(c, "frame")
    /\ LET a == conn[c].audio_input
           o == audio_inputs[a]
           r == add_audio(o.pending_len, o.pending_abs_sum, o.pending_mins,
                          o.silence_frames, <<>>, frame)
       IN  audio_inputs' =
               IF LowEnergy(frame)
               THEN audio_inputs
               ELSE [audio_inputs EXCEPT ![a] =
                        [pending_len |-> r[1], pending_abs_sum |-> r[2],
                         pending_mins |-> r[3], silence_frames |-> r[4],
                         end_of_speech_detected |-> o.end_of_speech_detected]]
    /\ UNCHANGED workflows

\* Lines 188-189 on the connection's own audio_input.
ConnEndOfSpeech(c) ==
    /\ Operates(c, "end_of_speech")
    /\ LET a == conn[c].audio_input
       IN  audio_inputs' =
               [audio_inputs EXCEPT ![a] =
                   [@ EXCEPT !.pending_len = 0, !.pending_abs_sum = 0,
                             !.pending_mins = 0, !.end_of_speech_detected = TRUE]]
    /\ UNCHANGED workflows

\* run() to its end on the connection's own workflow (voice_workflow.py
\* 165-210): user entry, reply, reconciliation, agent.
ConnTurn(c, text, reply, agent) ==
    /\ Operates(c, "turn")
    /\ LET w == conn[c].workflow
           h == AppendUserEntry(workflows[w].input_history, text)
       IN  workflows' =
               [workflows EXCEPT ![w] =
                   [input_history |->
                        Reconcile(h, ListOf(h \o <<Entry("assistant", reply)>>), reply),
                    current_agent |->
                        AgentAfterTurn(workflows[w].current_agent, agent)]]
    /\ UNCHANGED audio_inputs

\* run() failing in the engine (voice_workflow.py 165, 212-219): the user
\* entry stays, the apology is appended, the agent is kept.
ConnTurnFails(c, text) ==
    /\ Operates(c, "error")
    /\ LET w == conn[c].workflow
       IN  workflows' =
               [workflows EXCEPT ![w].input_history =
                   Append(AppendUserEntry(@, text), Entry("assistant", ApologyTechnical))]
    /\ UNCHANGED audio_inputs

\* Lines 201-203: the connection is taken off the shared list.
ConnDisconnect(c) ==
    /\ conn[c].state = "open"
    /\ conn' = [conn EXCEPT ![c].state = "closed"]
    /\ active_connections' = Removed(active_connections, c)
    /\ last_op' = Op(c, "disconnect")
    /\ UNCHANGED <<audio_inputs, workflows>>
    /\ UNCHANGED <<connVars, bufVars, waitVars, pipeVars, obVars, wfVars, cxVars>>

ConnectionsNext ==
    \E c \in Connections :
        \/ Connect(c)
        \/ \E frame \in ConnectionFrames : ConnFrame(c, frame)
        \/ ConnEndOfSpeech(c)
        \/ \E text \in ConnectionTexts, reply \in ConnectionReplies, agent \in Agents :
              ConnTurn(c, text, reply, agent)
        \/ \E text \in ConnectionTexts : ConnTurnFails(c, text)
        \/ ConnDisconnect(c)

SpecConnections == Init /\ [][ConnectionsNext]_vars


\* correct_transcription on every drawn transcript and service outcome.
CorrectInit ==
    /\ SessionInit
    /\ cx_transcription \in {<<"h", "i">>, <<" ", "h", "i">>}
    /\ cx_resp \in AllResponses
    /\ cx_result = NoCorrection
    /\ cx_pc = "call"

CorrectApply ==
    /\ cx_pc = "call"
    /\ cx_result' = correct_transcription(cx_transcription, cx_resp)
    /\ cx_pc' = "returned"
    /\ UNCHANGED <<cx_transcription, cx_resp>>
    /\ UNCHANGED <<connVars, bufVars, waitVars, pipeVars, obVars, wfVars, sessVars>>

CorrectNext == CorrectApply

SpecCorrect == CorrectInit /\ [][CorrectNext]_vars

----------------------------------------------------------------------------
(* Properties of correct_transcription, under SpecCorrect                  *)

InUnitRange(c) == c.kind = "num" /\ c.v >= 0 /\ c.v <= 10

\* C9: every result of correct_transcription has confidence_score within
\* [0,1] whatever the service returned: a value below 0 becomes 0, a value
\* above 1 becomes 1, a value in range is returned unchanged.
C9_ConfidenceAlwaysInUnitRange ==
    cx_pc = "returned" =>
        /\ InUnitRange(cx_result.confidence_score)
        /\ (cx_resp.kind = "obj" /\ RequiredFields \subseteq cx_resp.keys
            /\ cx_resp.textIsStr /\ cx_resp.conf.kind = "num") =>
               cx_result.confidence_score.v =
                   IF cx_resp.conf.v < 0 THEN 0
                   ELSE IF cx_resp.conf.v > 10 THEN 10 ELSE cx_resp.conf.v

\* C10: a response lacking any of the four required fields takes the
\* failure path: corrected_text is the raw transcript and confidence_score
\* is 0.4, so the gate picks the raw transcript, not the service's text.
C10_MissingFieldFallsBack ==
    (cx_pc = "returned" /\ cx_resp.kind = "obj"
     /\ ~(RequiredFields \subseteq cx_resp.keys)) =>
        /\ cx_result.corrected_text = cx_transcription
        /\ cx_result.confidence_score = Num(4)
        /\ GateText(cx_result, cx_transcription) = cx_transcription

\* A response without corrected_text, and one without confidence_score, have
\* been answered with the raw transcript at confidence 0.4.
C10_Witness ==
    /\ cx_pc = "returned"
    /\ cx_resp.kind = "obj"
    /\ cx_resp.keys = RequiredFields \ {"corrected_text"}
    /\ cx_transcription = <<" ", "h", "i">>
    /\ cx_result.corrected_text = <<" ", "h", "i">>
    /\ cx_result.confidence_score = Num(4)

\* C11: a response that omits language_detected is answered with
\* language_detected = "unk", and one that omits needs_human_review with
\* needs_human_review = false.
C11_OmittedFieldsDefaulted ==
    (cx_pc = "returned" /\ cx_resp.kind = "obj") =>
        /\ "language_detected" \notin cx_resp.keys =>
               cx_result.language_detected = "unk"
        /\ "needs_human_review" \notin cx_resp.keys =>
               cx_result.needs_human_review = FALSE

\* C31: every result of correct_transcription, from the try block and from
\* the except branch alike, carries corrected_text, confidence_score,
\* language_detected, needs_human_review and original_text, and original_text
\* is the raw transcript.
C31_ResultCarriesFiveFields ==
    cx_pc = "returned" =>
        /\ (RequiredFields \cup {"original_text"}) \subseteq cx_result.keys
        /\ cx_result.original_text = cx_transcription

----------------------------------------------------------------------------
(* Properties of run(), under SpecTurn                                     *)

TurnOver == wf_pc \in {"returned", "raised"}

ApologiesYielded == Len(SelectSeq(yielded, LAMBDA f : f \in Apologies))

LastEntry(h) == h[Len(h)]

\* The text the gate is meant to let through, from the correction result.
ExpectedUserText ==
    IF correction.confidence_score.kind = "num" /\ correction.confidence_score.v > 5
    THEN correction.corrected_text
    ELSE transcription

\* C3: when the dialogue engine raises before or during streaming, run()
\* yields exactly one apology fragment, and after the turn the history is the
\* prior history plus the user entry plus the apology as last assistant entry.
C3_SingleApologyRecorded ==
    (TurnOver /\ "engine" \in turn_failures) =>
        /\ ApologiesYielded = 1
        /\ input_history =
               prior_history \o <<Entry("user", processed_text),
                                  Entry("assistant", ApologyTechnical)>>

\* C4: every failure raised while a turn is corrected or answered, a failing
\* on_start or on_response callback included, produces an apology that is
\* appended to the history as an assistant turn.
C4_EveryFailureApologyInHistory ==
    (TurnOver /\ turn_failures # {}) =>
        /\ Len(input_history) > Len(prior_history)
        /\ LastEntry(input_history).role = "assistant"
        /\ LastEntry(input_history).content \in Apologies

\* C7: for every non-skipped turn the user entry appended to the history is
\* corrected_text when confidence_score > 0.5 and the raw transcript
\* otherwise, 0.5 included.
C7_UserEntryFollowsGate ==
    wf_pc = "streaming" =>
        input_history = Append(prior_history, Entry("user", ExpectedUserText))

\* A turn whose correction came back at exactly 0.5 with another text has
\* appended the raw transcript.
C7_Witness ==
    /\ wf_pc = "streaming"
    /\ correction.confidence_score = Num(5)
    /\ correction.corrected_text # transcription
    /\ LastEntry(input_history) = Entry("user", transcription)

\* The service failed, or its answer could not be parsed or validated.
ServiceFailed(resp) ==
    \/ resp.kind \in {"raise", "badjson", "nondict"}
    \/ (resp.kind = "obj" /\ ~(RequiredFields \subseteq resp.keys))

AfterCorrection == wf_pc \notin {"idle", "correcting"} /\ service_resp # NoResponse

\* C8: correct_transcription never raises: on any failure of the service or
\* of parsing/validating its answer it returns the raw transcript with
\* confidence 0.4, needs_human_review true and language "unk", and the turn
\* goes on with the raw transcript (not an empty string), which is what
\* enters the history as the user entry.
C8_CorrectionFailureDegrades ==
    (AfterCorrection /\ ServiceFailed(service_resp)) =>
        /\ correction.corrected_text = transcription
        /\ correction.confidence_score = Num(4)
        /\ correction.needs_human_review = TRUE
        /\ correction.language_detected = "unk"
        /\ processed_text = transcription
        /\ transcription # <<>>
        /\ (wf_pc = "streaming" =>
               input_history = Append(prior_history, Entry("user", transcription)))

\* The correction call failed and the raw transcript has entered the history.
C8_Witness ==
    /\ wf_pc = "streaming"
    /\ service_resp.kind = "raise"
    /\ LastEntry(input_history) = Entry("user", <<"h", "i">>)

\* Reconciliation has run in this turn.
Reconciled == new_history # NoHistory

\* The entry is a mapping that has both role and content.
WellFormed(item) == item.isDict /\ {"role", "content"} \subseteq item.keys

\* The history as it was when reconciliation began: prior history plus the
\* user entry of the turn.
HistoryBeforeReconcile == Append(prior_history, Entry("user", processed_text))

ReplyEntry == Entry("assistant", Join(full_response))

\* C12: when the engine returns a non-empty list whose entries all have role
\* and content, the history after reconciliation is exactly that list, in
\* order; nothing of the previous history is kept unless the list has it.
C12_WellFormedListReplacesHistory ==
    (Reconciled /\ new_history.kind = "list" /\ new_history.items # <<>>
     /\ \A i \in 1..Len(new_history.items) : WellFormed(new_history.items[i])) =>
        input_history = new_history.items

\* A second turn whose returned list holds the reply alone: the earlier
\* entries are gone from the history.
C12_Witness ==
    /\ Reconciled
    /\ prior_history # <<>>
    /\ new_history = ListOf(<<ReplyEntry>>)
    /\ input_history = <<ReplyEntry>>

\* C13: when the returned list has at least one entry lacking content or
\* role, reconciliation leaves the history as it was and appends exactly one
\* assistant entry holding the complete reply.
C13_MalformedListKeepsHistoryAppendsReply ==
    (Reconciled /\ new_history.kind = "list"
     /\ \E i \in 1..Len(new_history.items) : ~WellFormed(new_history.items[i])) =>
        input_history = Append(HistoryBeforeReconcile, ReplyEntry)

\* The returned history is not adopted: not a list, empty, raising on access,
\* or without a single valid entry.
NotAdopted ==
    /\ Reconciled
    /\ \/ new_history.kind \in {"notlist", "raises"}
       \/ new_history.items = <<>>
       \/ \A i \in 1..Len(new_history.items) : ~WellFormed(new_history.items[i])

\* C14: whenever the returned history is not adopted, the complete reply of
\* the turn is appended to the existing history as an assistant entry.
C14_ReplyNeverLost ==
    NotAdopted => input_history = Append(HistoryBeforeReconcile, ReplyEntry)

\* C15: every entry of the history has a role and a content, both non-empty.
C15_HistoryEntriesComplete ==
    \A i \in 1..Len(input_history) :
        /\ WellFormed(input_history[i])
        /\ input_history[i].role # ""
        /\ input_history[i].content # <<>>

C17_TurnStepsInOrder ==
    /\ correction = NoCorrection =>
          /\ input_history = prior_history
          /\ engine_input = NoHistory
          /\ new_history = NoHistory
    /\ wf_pc \in {"correcting", "on_start"} =>
          /\ input_history = prior_history
          /\ engine_input = NoHistory
    /\ engine_input # NoHistory =>
          /\ engine_input.items = HistoryBeforeReconcile
          /\ processed_text = ExpectedUserText
    /\ wf_pc \in {"streaming", "on_response", "reconcile"} =>
          /\ engine_input # NoHistory
          /\ input_history = engine_input.items
          /\ new_history = NoHistory
    /\ Reconciled =>
          /\ engine_input # NoHistory
          /\ result_last_agent # NoAgent
          /\ wf_pc \in {"returned", "idle"}

\* A second turn has gone through all four steps.
C17_Witness ==
    /\ wf_pc = "returned"
    /\ prior_history # <<>>
    /\ correction # NoCorrection
    /\ engine_input.items = HistoryBeforeReconcile
    /\ new_history.kind = "list"

\* The dialogue stream of the turn was exhausted without raising.
StreamCompleted == result_last_agent # NoAgent

----------------------------------------------------------------------------
(* Properties of the session, under Spec and FairSpec                      *)

\* Every step of run(), of the pipeline driving it and of run_pipeline is
\* eventually taken once it can be: the event loop schedules every ready
\* task, and every external call resolves.  The inbound loop eventually sees
\* a disconnect.  What the client sends, and whether the pipeline fails, is
\* left to the environment.
FairSpec ==
    /\ Spec
    /\ WF_vars(WorkflowStep)
    /\ WF_vars(OutboundStep)
    /\ WF_vars(IbDisconnect \/ IbUnexpected)

WireIdx == 1..Len(wire)
OutboundIdx == {i \in WireIdx : wire[i].by = "outbound"}

\* The position on the wire of the processing_speech message that answered
\* the k-th end_of_speech (0 if it was not written).
SpeechIdx(k) ==
    LET idx == {i \in WireIdx :
                   /\ wire[i].by = "inbound"
                   /\ wire[i].kind = "lifecycle"
                   /\ Cardinality({j \in 1..i : wire[j].by = "inbound"
                                       /\ wire[j].kind = "lifecycle"}) = k}
    IN  IF idx = {} THEN 0 ELSE CHOOSE i \in idx : TRUE

\* A processing_complete message has been written after the k-th
\* end_of_speech was taken in.
CompletedAfter(k) ==
    \E j \in WireIdx : j > SpeechIdx(k) /\ wire[j].kind = "processing_complete"

\* C1: while the transport stays connected, every utterance the client ends
\* with end_of_speech is eventually followed by a processing_complete message,
\* also an utterance sent after an earlier turn or pipeline error.
C1_EveryUtteranceCompleted ==
    \A k \in 1..MaxUtterances :
        (eos_count >= k) ~> (~TransportOpen \/ CompletedAfter(k))

\* The outbound task has caught an error and told the client.
ErrorReported == \E i \in OutboundIdx : wire[i].kind = "error"

\* C2: no recovered error ends the session: after an error the inbound loop
\* and the outbound task are both still running, and only a transport
\* disconnect ends either of them.
C2_OnlyDisconnectEndsLoops ==
    /\ ib_pc = "done" => ~TransportOpen
    /\ ob_pc \in {"cancelled", "failed"} => ~TransportOpen
    /\ (ob_pc = "done" /\ ErrorReported) => ~TransportOpen

\* C5 as claimed: the error message of the outbound task is directly
\* followed on the transport by processing_complete, no other message
\* between them.
C5_ErrorThenCompleteAdjacent ==
    \A i \in OutboundIdx :
        (wire[i].kind = "error" /\ i < Len(wire)) =>
            wire[i + 1].kind = "processing_complete"

\* C5 as amended: the outbound task writes error and then processing_complete
\* as two consecutive writes of its own, the second being its last write; a
\* message between them is one of the inbound loop; and unless the transport
\* went away the task does not end before both are written.
C5_ErrorThenCompleteByOutbound ==
    /\ \A i \in OutboundIdx :
          wire[i].kind = "error" =>
              /\ \A j \in OutboundIdx :
                    j > i => /\ wire[j].kind = "processing_complete"
                             /\ \A m \in OutboundIdx : m <= j
              /\ (ob_pc = "done" => \E j \in OutboundIdx : j > i)
    /\ ob_pc = "err_complete" =>
          /\ OutboundIdx # {}
          /\ \A m \in OutboundIdx : wire[m].kind = "error" \/ \E n \in OutboundIdx : n > m
    /\ (ObEnded(ob_pc) /\ TransportOpen /\ ErrorReported) => ob_pc = "done"

\* The inbound loop wrote processing_speech between the error and the
\* processing_complete of the outbound task.
C5_Witness ==
    \E i \in OutboundIdx :
        /\ wire[i].kind = "error"
        /\ i + 2 <= Len(wire)
        /\ wire[i + 1].by = "inbound"
        /\ wire[i + 2].by = "outbound"
        /\ wire[i + 2].kind = "processing_complete"

\* C6: once the inbound loop has observed the disconnect the outbound task
\* is cancelled and writes nothing more: no text message, no packet, and a
\* partially built packet is not flushed.
C6_NothingWrittenAfterDisconnect ==
    [][/\ ib_pc' = "done" => ObEnded(ob_pc')
       /\ ib_pc = "done" => /\ wire' = wire
                            /\ notified' = notified
                            /\ ob_attempts' = ob_attempts
                            /\ ob_pc' = ob_pc]_vars

\* The task was cancelled while it held a partially built packet, and after
\* having written to the client.
C6_Witness ==
    /\ ib_pc = "done"
    /\ ob_pc = "cancelled"
    /\ HasRemainder
    /\ buffer_size < PacketThreshold
    /\ wire # <<>>

----------------------------------------------------------------------------
(* Properties of run_pipeline's packets, under SpecOutbound                *)

RECURSIVE SumSeq(_)
SumSeq(q) == IF q = <<>> THEN 0 ELSE Head(q) + SumSeq(Tail(q))

\* The audio data of all packets on the wire, concatenated in order.
RECURSIVE PacketsConcat(_)
PacketsConcat(w) ==
    IF w = <<>> THEN <<>>
    ELSE (IF Head(w).kind = "audio" THEN Head(w).body ELSE <<>>)
         \o PacketsConcat(Tail(w))

\* The samples of a run of chunks: chunks without a sample add nothing.
Samples(chunks) == SelectSeq(chunks, LAMBDA n : n > 0)

\* This step wrote one more message to the client.
Wrote == Len(wire') = Len(wire) + 1
Written == wire'[Len(wire')]

\* C18: a packet sent by the size check holds at least 4800 samples; a
\* shorter packet is sent only as the flush at a lifecycle event or at the
\* normal end of the stream.
C18_ShortPacketsOnlyAtFlush ==
    [][(Wrote /\ Written.kind = "audio") =>
          /\ events # <<>>
          /\ Head(events).type = "voice_stream_event_audio" =>
                SumSeq(Written.body) >= PacketThreshold
          /\ SumSeq(Written.body) < PacketThreshold =>
                Head(events).type \in {"voice_stream_event_lifecycle", "end"}]_vars

\* Two chunks made a packet at the size check, and a short packet went out
\* at a flush.
C18_Witness ==
    /\ \E i \in WireIdx : /\ wire[i].kind = "audio"
                          /\ wire[i].body = <<2000, 3000>>
    /\ \E j \in WireIdx : /\ wire[j].kind = "audio"
                          /\ SumSeq(wire[j].body) < PacketThreshold

\* C19: when the stream has ended without error or cancellation, the packets
\* sent, concatenated, are the data of the audio events received, in arrival
\* order: no sample lost, duplicated or reordered.
C19_PacketsCarryAllAudio ==
    /\ (ob_pc = "done" /\ ~ErrorReported) =>
          Samples(PacketsConcat(wire)) = Samples(audio_received)
    /\ ob_pc \in {"loop", "lc_send", "lc_complete"} =>
          Samples(PacketsConcat(wire) \o audio_buffer) = Samples(audio_received)

\* A stream of three chunks ended normally after a size-check packet and a
\* flushed one.
C19_Witness ==
    /\ ob_pc = "done"
    /\ ~ErrorReported
    /\ audio_received = <<2000, 3000, 2000>>
    /\ Cardinality({i \in WireIdx : wire[i].kind = "audio"}) = 2

\* C20: a lifecycle message, and the processing_complete that follows a
\* "completed" event, is written only when the accumulator is empty and all
\* audio received so far has been written.
C20_LifecycleAfterAudio ==
    [][(/\ Wrote
        /\ Written.by = "outbound"
        /\ \/ Written.kind = "lifecycle"
           \/ (Written.kind = "processing_complete" /\ ob_pc = "lc_complete")) =>
          /\ buffer_size = 0
          /\ ~(~buffer_is_none /\ buffer_size > 0)
          /\ Samples(PacketsConcat(wire)) = Samples(audio_received)]_vars

\* A short packet was flushed right before "completed" and processing_complete.
C20_Witness ==
    \E i \in WireIdx :
        /\ i + 2 <= Len(wire)
        /\ wire[i].kind = "audio"
        /\ SumSeq(wire[i].body) < PacketThreshold
        /\ wire[i + 1] = Msg("outbound", "lifecycle", <<"completed">>)
        /\ wire[i + 2].kind = "processing_complete"

\* C21: when the outbound loop catches an exception while the transport is
\* connected, the accumulated audio is flushed before error and
\* processing_complete are written: all audio received is on the wire.
C21_ErrorFlushesHeldAudio ==
    ErrorReported => Samples(PacketsConcat(wire)) = Samples(audio_received)

----------------------------------------------------------------------------
(* Properties of the audio buffer and the inbound loop, under SpecBuffer    *)

\* A step in which a frame reached add_audio, and that frame.
AddAudioStep == frames_sent' = frames_sent + 1
AddedFrame == ib_data'.frame
BufferUntouched ==
    UNCHANGED <<pending_len, pending_abs_sum, pending_mins, silence_frames,
                stt_chunks, end_of_speech_detected, flush_tasks>>

\* C22: add_audio forwards downstream exactly when the accumulated length is
\* above FlushThreshold, then the whole buffer as one chunk, leaving the
\* buffer empty; otherwise it only accumulates; after it returns at most
\* FlushThreshold samples are pending.
C22_ForwardsOnlyAboveThreshold ==
    [][AddAudioStep =>
        LET len == pending_len + AddedFrame.len
        IN  /\ IF len > FlushThreshold
               THEN stt_chunks' = Append(stt_chunks, len) /\ pending_len' = 0
               ELSE stt_chunks' = stt_chunks /\ pending_len' = len
            /\ pending_len' <= FlushThreshold]_vars

\* Two frames summed to exactly the threshold and stayed pending; the third
\* took the buffer above it and all three left as one chunk.
C22_Witness == frames_sent = 3 /\ stt_chunks = <<36001>> /\ pending_len = 0

\* The sum of the absolute values of the samples, of a frame and of the
\* pending buffer (np.abs turned every -32768 into -32768, not 32768).
TrueAbsSum(frame) == (frame.len - frame.mins) * frame.amp + Int16Min * frame.mins
PendingTrueAbsSum == pending_abs_sum + 2 * Int16Min * pending_mins

\* C23: the silence counter is never negative and changes only at a
\* threshold flush: there it is incremented when the mean absolute amplitude
\* of the flushed buffer is below SilenceThreshold and reset to 0 otherwise.
C23_SilenceCountFollowsAmplitude ==
    [][/\ silence_frames' >= 0
       /\ IF AddAudioStep /\ pending_len + AddedFrame.len > FlushThreshold
          THEN LET len == pending_len + AddedFrame.len
                   sum == PendingTrueAbsSum + TrueAbsSum(AddedFrame)
               IN  silence_frames' =
                       IF sum < SilenceThreshold * len THEN silence_frames + 1 ELSE 0
          ELSE silence_frames' = silence_frames]_vars

\* C24: signal_end_of_speech leaves the pending buffer empty and the gate
\* set; a non-empty buffer is handed to one task that forwards it downstream
\* once, and an empty buffer has nothing forwarded.
C24_EndOfSpeechFlushesOnce ==
    /\ [][/\ eos_count' = eos_count + 1 =>
              /\ pending_len' = 0
              /\ end_of_speech_detected'
              /\ stt_chunks' = stt_chunks
              /\ flush_tasks' = IF pending_len > 0
                                 THEN Append(flush_tasks, pending_len)
                                 ELSE flush_tasks
          /\ (eos_count' = eos_count /\ flush_tasks' # flush_tasks) =>
              /\ flush_tasks = <<Head(flush_tasks)>> \o flush_tasks'
              /\ stt_chunks' = Append(stt_chunks, Head(flush_tasks))]_vars
    /\ (flush_tasks # <<>>) ~> (flush_tasks = <<>>)

\* One frame was pending at the end of speech and went downstream.
C24_Witness ==
    /\ eos_count = 1
    /\ frames_sent = 1
    /\ stt_chunks = <<12000>>
    /\ flush_tasks = <<>>
    /\ pending_len = 0
    /\ end_of_speech_detected

\* C25: wait_for_end_of_speech returns true only with the gate signalled and
\* false only when its timeout elapsed with the gate not signalled; it
\* returns, never raises; an add_audio call in between neither signals the
\* gate nor makes the wait return.
C25_WaitFollowsGate ==
    [][/\ (wait_pc = "waiting" /\ wait_pc' = "true") => end_of_speech_detected
       /\ (wait_pc = "waiting" /\ wait_pc' = "false") =>
              ~end_of_speech_detected /\ wait_left = 0
       /\ wait_pc = "waiting" => wait_pc' \in {"waiting", "true", "false"}
       /\ AddAudioStep =>
              /\ wait_pc' = wait_pc
              /\ end_of_speech_detected' = end_of_speech_detected]_vars

\* The wait timed out although audio arrived and was forwarded meanwhile.
C25_Witness ==
    /\ wait_pc = "false"
    /\ ~end_of_speech_detected
    /\ stt_chunks # <<>>

\* C26: a binary frame whose mean absolute amplitude is below LowEnergyFloor
\* is dropped before the buffer: pending audio, silence counter, gate and
\* what went downstream are as they were.
C26_QuietFrameDropped ==
    [][(/\ ib_data' # ib_data
        /\ ib_data'.kind = "bytes"
        /\ ib_data'.frame.ok
        /\ ib_data'.frame.len > 0
        /\ TrueAbsSum(ib_data'.frame) < LowEnergyFloor * ib_data'.frame.len)
       => BufferUntouched /\ frames_sent' = frames_sent]_vars

\* A quiet frame was read while an earlier frame was pending.
C26_Witness ==
    /\ ib_data = Received("bytes", Frame(12000, 10), "")
    /\ pending_len = 12000
    /\ frames_sent = 1

\* C27: a text payload that is not JSON, not a JSON object, or an object of
\* another type changes neither the buffer nor the gate, writes nothing to
\* the client, and the loop goes on.
C27_OtherTextIgnored ==
    [][(/\ ib_data' # ib_data
        /\ ib_data'.kind = "text"
        /\ ib_data'.text \in TextKinds)
       => /\ BufferUntouched
          /\ UNCHANGED <<wire, notified, eos_count, ob_pc>>
          /\ ib_pc' = "loop"]_vars

\* Such a payload was read while audio was pending and the gate not set.
C27_Witness ==
    /\ ib_data = Received("text", BadFrame, "not_object")
    /\ pending_len = 12000
    /\ ~end_of_speech_detected
    /\ ib_pc = "loop"

\* C28: a binary frame whose decoding fails is dropped alone: the buffer is
\* as it was, the loop goes on to the next frame, the outbound task is not
\* cancelled.
C28_BadFrameDroppedLoopContinues ==
    [][(/\ ib_data' # ib_data
        /\ ib_data'.kind = "bytes"
        /\ ~ib_data'.frame.ok)
       => /\ BufferUntouched
          /\ UNCHANGED <<frames_sent, ob_pc>>
          /\ ib_pc' = "loop"]_vars

\* An undecodable frame was read after a frame was buffered, and both loops
\* are still running.
C28_Witness ==
    /\ ib_data = Received("bytes", BadFrame, "")
    /\ pending_len = 12001
    /\ ib_pc = "loop"
    /\ ob_pc # "cancelled"

----------------------------------------------------------------------------
(* Properties of two connections, under SpecConnections                     *)

\* What a connection holds of the state the claim names: its history and
\* agent, its buffer, silence counter and gate.
Held(c) ==
    IF conn[c].state = "new"
    THEN <<>>
    ELSE <<workflows[conn[c].workflow], audio_inputs[conn[c].audio_input]>>

\* C29: an operation of one connection (connect, frame, end_of_speech, turn,
\* error, disconnect) leaves the history, agent, buffer, silence counter and
\* gate of the other connection as they were, and two connections never
\* hold the same buffer object or the same workflow object.
C29_ConnectionsAreIsolated ==
    [][\A c \in Connections :
          /\ c # last_op'.connection => Held(c)' = Held(c)
          /\ \A d \in Connections \ {c} :
                (conn'[c].state # "new" /\ conn'[d].state # "new") =>
                    /\ conn'[c].audio_input # conn'[d].audio_input
                    /\ conn'[c].workflow # conn'[d].workflow]_vars

\* Both connections have buffered audio, ended speech and completed turns
\* that moved them to different agents.
C29_Witness ==
    /\ \A c \in Connections : conn[c].state = "open" /\ conn[c].ops = MaxOps
    /\ workflows[conn[1].workflow].current_agent = "cardiology_agent"
    /\ workflows[conn[2].workflow].current_agent = "main_agent"
    /\ Len(workflows[conn[2].workflow].input_history) = 4
    /\ audio_inputs[conn[1].audio_input].end_of_speech_detected
    /\ audio_inputs[conn[2].audio_input].pending_len = 12001

----------------------------------------------------------------------------
(* Order of the chunks sent downstream, under SpecBuffer                    *)

\* C32: the chunks received downstream, concatenated in the order received,
\* are a prefix of the admitted frames concatenated in arrival order: each
\* chunk begins where the chunks before it end, so the remainder handed to a
\* task by signal_end_of_speech is never overtaken by a later add_audio.
C32_DownstreamIsPrefixOfAdmitted ==
    \A k \in 1..Len(stt_chunks) :
        stt_starts[k] = SumSeq(SubSeq(stt_chunks, 1, k - 1))

\* C33: the gate is a latch: once set it stays set, and from then on a
\* call of wait_for_end_of_speech uses none of its timeout and can only
\* return true, also while audio of a later utterance is pending for which
\* no end_of_speech has arrived.
C33_GateIsALatch ==
    [][/\ end_of_speech_detected => end_of_speech_detected'
       /\ (end_of_speech_detected /\ wait_pc = "waiting") =>
              /\ wait_pc' \in {"waiting", "true"}
              /\ wait_left' = wait_left]_vars

\* After one end_of_speech, audio of the next utterance is pending and a
\* wait has returned true with its whole timeout left.
C33_Witness ==
    /\ eos_count = 1
    /\ end_of_speech_detected
    /\ pending_len = 12001
    /\ flush_tasks = <<>>
    /\ stt_chunks = <<12000>>
    /\ wait_pc = "true"
    /\ wait_left = MaxWait

----------------------------------------------------------------------------
(* Further properties of run(), under SpecTurn                              *)

\* C34: a transcript of fewer than 2 characters after stripping is skipped:
\* run() returns at once, the correction service is not called, neither
\* callback is invoked, nothing is yielded, history and agent stay.
C34_ShortTranscriptSkipped ==
    [][(wf_pc = "idle" /\ wf_pc' # "idle" /\ Len(strip(transcription')) < 2) =>
          /\ wf_pc' = "returned"
          /\ service_resp' = NoResponse
          /\ notified' = notified
          /\ yielded' = <<>>
          /\ input_history' = input_history
          /\ current_agent' = current_agent]_vars

\* A one-letter transcript came after a completed turn and was skipped.
C34_Witness ==
    /\ wf_pc = "returned"
    /\ transcription = <<" ", "a", " ">>
    /\ service_resp = NoResponse
    /\ yielded = <<>>
    /\ Len(input_history) = 2
    /\ current_agent = "cardiology_agent"

\* C35: the active agent changes only in the step that ends a turn whose
\* stream, notification and reconciliation completed; a turn that went
\* through either error handler never reached that step, so its agent is
\* the one it started with.
C35_AgentKeptOnError ==
    [][/\ current_agent' # current_agent =>
              /\ wf_pc = "reconcile"
              /\ wf_pc' = "returned"
              /\ turn_failures = {}
       /\ (TurnOver' /\ turn_failures' # {}) => new_history' = NoHistory]_vars

\* A turn whose engine had reported the cardiology agent failed at the
\* notification and ended with the agent it started with.
C35_Witness ==
    /\ TurnOver
    /\ "on_response" \in turn_failures
    /\ result_last_agent = "cardiology_agent"
    /\ current_agent = "main_agent"

\* C36: in every turn that is not skipped the transcription message written
\* by on_start carries exactly the text appended to the history as the user
\* entry, after the correction and before the append; when the notification
\* fails no user entry is appended and the engine is not invoked.
C36_NotifiedTextIsUserEntry ==
    [][(wf_pc = "on_start" /\ wf_pc' # "on_start") =>
          /\ correction # NoCorrection
          /\ IF notified' # notified
             THEN LET m == notified'[Len(notified')]
                  IN  /\ m.kind = "transcription"
                      /\ input_history' = Append(input_history, Entry("user", m.body))
                      /\ JsonTextField(Payload(m)) =
                             [ok |-> TRUE, text |-> m.body, rest |-> <<"}">>]
             ELSE /\ input_history' = input_history
                  /\ wf_pc' # "streaming"
                  /\ engine_input' = NoHistory]_vars

----------------------------------------------------------------------------
(* Further properties of the session, under Spec                            *)

\* What run_pipeline wrote, in order, without the writes of the inbound loop.
OutboundWrites == SelectSeq(wire, LAMBDA m : m.by = "outbound")

\* C37: every processing_complete of run_pipeline has, as the write of
\* run_pipeline just before it, the lifecycle message of a completed event
\* or an error message; a lifecycle event of another name is relayed and no
\* processing_complete follows it.
C37_CompleteFollowsCompletedOrError ==
    LET ow == OutboundWrites
    IN  \A i \in 1..Len(ow) :
            /\ ow[i].kind = "processing_complete" =>
                   /\ i > 1
                   /\ \/ ow[i - 1] = Msg("outbound", "lifecycle", <<"completed">>)
                      \/ ow[i - 1].kind = "error"
            /\ (ow[i].kind = "lifecycle" /\ ow[i].body # <<"completed">> /\ i < Len(ow)) =>
                   ow[i + 1].kind # "processing_complete"

\* A turn_started event was relayed, and the inbound loop wrote
\* processing_speech between the completed message and processing_complete.
C37_Witness ==
    /\ \E i \in OutboundIdx : wire[i].kind = "lifecycle" /\ wire[i].body = <<"turn_started">>
    /\ \E i \in OutboundIdx :
          /\ wire[i] = Msg("outbound", "lifecycle", <<"completed">>)
          /\ i + 2 <= Len(wire)
          /\ wire[i + 1].by = "inbound"
          /\ wire[i + 2] = Msg("outbound", "processing_complete", <<>>)

----------------------------------------------------------------------------
(* The answer to end_of_speech, under SpecBuffer                            *)

SpeechAnnounced(w) ==
    Len(SelectSeq(w, LAMBDA m : m = Msg("inbound", "lifecycle", <<"processing_speech">>)))

\* C38 as claimed: every end_of_speech read makes one call of
\* signal_end_of_speech and then one processing_speech message of the
\* inbound loop, and nothing else makes such a message.
C38_EachEndOfSpeechAnnounced ==
    [][IF eos_count' = eos_count + 1
       THEN /\ end_of_speech_detected' /\ pending_len' = 0
            /\ wire' = Append(wire, Msg("inbound", "lifecycle", <<"processing_speech">>))
       ELSE SpeechAnnounced(wire') = SpeechAnnounced(wire)]_vars

\* C38 as amended: every end_of_speech read makes one call of
\* signal_end_of_speech, and then, if the client is still there, one
\* processing_speech message of the inbound loop; when the client has gone
\* the call is made and no message is written; nothing else makes such a
\* message.
C38_EachEndOfSpeechAnnouncedIfOpen ==
    [][IF eos_count' = eos_count + 1
       THEN /\ end_of_speech_detected' /\ pending_len' = 0
            /\ wire' = IF TransportOpen
                       THEN Append(wire, Msg("inbound", "lifecycle", <<"processing_speech">>))
                       ELSE wire
       ELSE SpeechAnnounced(wire') = SpeechAnnounced(wire)]_vars

\* Two end_of_speech messages were read, the second after the client had
\* gone: two calls, one message, the loop still running.
C38_Witness ==
    /\ eos_count = 2
    /\ ~TransportOpen
    /\ ib_pc = "loop"
    /\ SpeechAnnounced(wire) = 1
    /\ end_of_speech_detected
    /\ flush_tasks = <<12000, 12001>>

====
